---- MODULE Spec2Model ----
(***************************************************************************)
(* Bank accounts as an event-sourced system: the BankAccount aggregate,    *)
(* the Commands, Sagas and Accounts applications and the process runtime   *)
(* that feeds each application the notification log of its upstreams.      *)
(* Amounts are in the smallest unit of the fixed-point decimals (cents).   *)
(***************************************************************************)
EXTENDS Integers, Sequences, FiniteSets, TLC

\* ------------------------------------------------------------------ bounds
MaxCommands == 1
MaxClientOps == 2
MaxAmount == 1
MaxLimit == 1

\* Account ids returned by create_account, in the order they are handed out,
\* and an id no account ever has (a uuid the client made up).
AccountIds == <<"a1", "a2">>
NoAccount == "a0"
None == "None"
NoId == 0

\* Amounts of either sign: no command validates the amount it is given.
Amounts == {x \in (0 - MaxAmount)..MaxAmount : x # 0}
Limits == 0..MaxLimit

\* ------------------------------------------------------------------ errors
NoError == [type |-> None, account_id |-> None]

AccountClosedError(account_id) ==
    [type |-> "AccountClosedError", account_id |-> account_id]

InsufficientFundsError(account_id) ==
    [type |-> "InsufficientFundsError", account_id |-> account_id]

IsTransactionError(e) ==
    e.type \in {"AccountClosedError", "InsufficientFundsError"}

\* ------------------------------------------------------------------ events
\* One record shape for every event; an attribute an event variant does not
\* carry holds None (NoId, NoError, 0).
Event(originator_id, originator_version, topic) ==
    [originator_id |-> originator_id,
     originator_version |-> originator_version,
     topic |-> topic,
     amount |-> 0,
     transaction_id |-> NoId,
     error |-> NoError,
     credit_account_error |-> NoError,
     overdraft_limit |-> 0,
     debit_account_id |-> None,
     credit_account_id |-> None]

\* The events of one aggregate, in the order they were stored.
Stream(log, id) == SelectSeq(log, LAMBDA e : e.originator_id = id)

\* __trigger_event__: construct the event at the aggregate's version, apply
\* its mutate, and append it to the aggregate's pending events.
Staged(obj, mutated, event) ==
    [mutated EXCEPT !.version = obj.version + 1,
                    !.pending = Append(obj.pending, event)]

\* ------------------------------------------------------------- BankAccount
BankAccount(id) ==
    [id |-> id, version |-> 0, pending |-> <<>>,
     balance |-> 0, overdraft_limit |-> 0, is_closed |-> FALSE]

BankAccountCreate(id) ==
    Staged(BankAccount(id), BankAccount(id), Event(id, 0, "BankAccount.Created"))

\* The amount replaces the balance.
Mutant_TransactionAppended_mutate(obj, event) ==
    [obj EXCEPT !.balance = event.amount]

TransactionAppended_mutate(obj, event) ==
    [obj EXCEPT !.balance = @ + event.amount]

OverdraftLimitSet_mutate(obj, event) ==
    [obj EXCEPT !.overdraft_limit = event.overdraft_limit]

Closed_mutate(obj, event) ==
    [obj EXCEPT !.is_closed = TRUE]

BankAccountMutate(obj, event) ==
    LET o == [obj EXCEPT !.version = @ + 1] IN
    CASE event.topic = "BankAccount.Created" -> [BankAccount(event.originator_id) EXCEPT !.version = 1]
      [] event.topic = "TransactionAppended" -> TransactionAppended_mutate(o, event)
      [] event.topic = "OverdraftLimitSet" -> OverdraftLimitSet_mutate(o, event)
      [] event.topic = "Closed" -> Closed_mutate(o, event)
      [] OTHER -> o

\* The guard against a closed account is left out.
Mutant_check_account_is_not_closed(self) ==
    NoError

check_account_is_not_closed(self) ==
    IF self.is_closed THEN AccountClosedError(self.id) ELSE NoError

\* A transaction that takes the balance exactly to the limit is refused.
Mutant_check_has_sufficient_funds(self, amount) ==
    IF self.balance + amount <= 0 - self.overdraft_limit
    THEN InsufficientFundsError(self.id)
    ELSE NoError

check_has_sufficient_funds(self, amount) ==
    IF self.balance + amount < 0 - self.overdraft_limit
    THEN InsufficientFundsError(self.id)
    ELSE NoError

\* A method's outcome: the exception it raised (NoError if none) and the
\* aggregate as the call left it.
Returned(obj) == [raised |-> NoError, obj |-> obj]
Raised(error, obj) == [raised |-> error, obj |-> obj]

AssertionError == [type |-> "AssertionError", account_id |-> None]
RepositoryKeyError == [type |-> "RepositoryKeyError", account_id |-> None]

\* The funds are checked before the closed flag.
Mutant_append_transaction(self, amount, transaction_id) ==
    IF check_has_sufficient_funds(self, amount) # NoError
    THEN Raised(check_has_sufficient_funds(self, amount), self)
    ELSE IF check_account_is_not_closed(self) # NoError
    THEN Raised(check_account_is_not_closed(self), self)
    ELSE LET event == [Event(self.id, self.version, "TransactionAppended")
                         EXCEPT !.amount = amount,
                                !.transaction_id = transaction_id]
         IN Returned(Staged(self, TransactionAppended_mutate(self, event), event))

append_transaction(self, amount, transaction_id) ==
    IF check_account_is_not_closed(self) # NoError
    THEN Raised(check_account_is_not_closed(self), self)
    ELSE IF check_has_sufficient_funds(self, amount) # NoError
    THEN Raised(check_has_sufficient_funds(self, amount), self)
    ELSE LET event == [Event(self.id, self.version, "TransactionAppended")
                         EXCEPT !.amount = amount,
                                !.transaction_id = transaction_id]
         IN Returned(Staged(self, TransactionAppended_mutate(self, event), event))

\* The assertion lets a limit of zero through.
Mutant_set_overdraft_limit(self, overdraft_limit) ==
    IF ~(overdraft_limit >= 0)
    THEN Raised(AssertionError, self)
    ELSE IF check_account_is_not_closed(self) # NoError
    THEN Raised(check_account_is_not_closed(self), self)
    ELSE LET event == [Event(self.id, self.version, "OverdraftLimitSet")
                         EXCEPT !.overdraft_limit = overdraft_limit]
         IN Returned(Staged(self, OverdraftLimitSet_mutate(self, event), event))

set_overdraft_limit(self, overdraft_limit) ==
    IF ~(overdraft_limit > 0)
    THEN Raised(AssertionError, self)
    ELSE IF check_account_is_not_closed(self) # NoError
    THEN Raised(check_account_is_not_closed(self), self)
    ELSE LET event == [Event(self.id, self.version, "OverdraftLimitSet")
                         EXCEPT !.overdraft_limit = overdraft_limit]
         IN Returned(Staged(self, OverdraftLimitSet_mutate(self, event), event))

\* close refuses an account that is already closed, as the other methods do.
Mutant_close(self) ==
    IF check_account_is_not_closed(self) # NoError
    THEN Raised(check_account_is_not_closed(self), self)
    ELSE LET event == Event(self.id, self.version, "Closed")
         IN Returned(Staged(self, Closed_mutate(self, event), event))

close(self) ==
    LET event == Event(self.id, self.version, "Closed")
    IN Returned(Staged(self, Closed_mutate(self, event), event))

\* record_error refuses a closed account, as append_transaction does.
Mutant_record_error(self, error, transaction_id) ==
    IF check_account_is_not_closed(self) # NoError
    THEN Raised(check_account_is_not_closed(self), self)
    ELSE LET event == [Event(self.id, self.version, "ErrorRecorded")
                         EXCEPT !.error = error,
                                !.transaction_id = transaction_id]
         IN Returned(Staged(self, self, event))

record_error(self, error, transaction_id) ==
    LET event == [Event(self.id, self.version, "ErrorRecorded")
                    EXCEPT !.error = error,
                           !.transaction_id = transaction_id]
    IN Returned(Staged(self, self, event))

\* repository[id]: the aggregate rebuilt by replaying its stored events from
\* version 0 (a stream with no events is a RepositoryKeyError).
RECURSIVE ReplayBankAccount(_, _)
ReplayBankAccount(events, n) ==
    IF n = 0 THEN BankAccount(None)
    ELSE BankAccountMutate(ReplayBankAccount(events, n - 1), events[n])

InRepository(log, id) == \E i \in 1..Len(log) : log[i].originator_id = id

get_account(log, account_id) ==
    ReplayBankAccount(Stream(log, account_id), Len(Stream(log, account_id)))

\* ------------------------------------------------------------------- sagas
DepositFundsSaga == "DepositFundsSaga"
WithdrawFundsSaga == "WithdrawFundsSaga"
TransferFundsSaga == "TransferFundsSaga"

BaseSaga(id, kind, debit_account_id, credit_account_id, amount) ==
    [id |-> id, version |-> 0, pending |-> <<>>, kind |-> kind,
     has_succeeded |-> FALSE, has_errored |-> FALSE, errors |-> <<>>,
     debit_account_id |-> debit_account_id,
     credit_account_id |-> credit_account_id,
     amount |-> amount,
     has_debit_account_debited |-> FALSE]

NoSaga == BaseSaga(NoId, None, None, None, 0)

\* Saga.__create__: the Created event carries the constructor's arguments.
SagaCreate(kind, originator_id, debit_account_id, credit_account_id, amount) ==
    LET obj == BaseSaga(originator_id, kind, debit_account_id, credit_account_id, amount)
        event == [Event(originator_id, 0, kind \o ".Created")
                    EXCEPT !.debit_account_id = debit_account_id,
                           !.credit_account_id = credit_account_id,
                           !.amount = amount]
    IN Staged(obj, obj, event)

Succeeded_mutate(obj, event) ==
    [obj EXCEPT !.has_succeeded = TRUE]

\* The error of the event is not kept.
Mutant_Errored_mutate(obj, event) ==
    [obj EXCEPT !.has_errored = TRUE]

Errored_mutate(obj, event) ==
    [obj EXCEPT !.has_errored = TRUE,
                !.errors = IF event.error # NoError THEN Append(@, event.error) ELSE @]

CreditAccountCreditRequired_mutate(obj, event) ==
    [obj EXCEPT !.has_debit_account_debited = TRUE]

DebitAccountRefundRequired_mutate(obj, event) ==
    [obj EXCEPT !.errors = Append(@, event.credit_account_error)]

SagaKindOfCreated(topic) ==
    CASE topic = "DepositFundsSaga.Created" -> DepositFundsSaga
      [] topic = "WithdrawFundsSaga.Created" -> WithdrawFundsSaga
      [] topic = "TransferFundsSaga.Created" -> TransferFundsSaga
      [] OTHER -> None

SagaMutate(obj, event) ==
    LET o == [obj EXCEPT !.version = @ + 1] IN
    CASE SagaKindOfCreated(event.topic) # None ->
            [BaseSaga(event.originator_id, SagaKindOfCreated(event.topic),
                      event.debit_account_id, event.credit_account_id, event.amount)
               EXCEPT !.version = 1]
      [] event.topic = "Succeeded" -> Succeeded_mutate(o, event)
      [] event.topic = "Errored" -> Errored_mutate(o, event)
      [] event.topic = "CreditAccountCreditRequired" -> CreditAccountCreditRequired_mutate(o, event)
      [] event.topic = "DebitAccountRefundRequired" -> DebitAccountRefundRequired_mutate(o, event)
      [] OTHER -> o

RECURSIVE ReplaySaga(_, _)
ReplaySaga(events, n) ==
    IF n = 0 THEN NoSaga
    ELSE SagaMutate(ReplaySaga(events, n - 1), events[n])

get_saga(log, transaction_id) ==
    ReplaySaga(Stream(log, transaction_id), Len(Stream(log, transaction_id)))

record_has_succeeded(self) ==
    LET event == Event(self.id, self.version, "Succeeded")
    IN Staged(self, Succeeded_mutate(self, event), event)

record_has_errored(self, error) ==
    LET event == [Event(self.id, self.version, "Errored") EXCEPT !.error = error]
    IN Staged(self, Errored_mutate(self, event), event)

require_credit_account_credit(self) ==
    LET event == [Event(self.id, self.version, "CreditAccountCreditRequired")
                    EXCEPT !.credit_account_id = self.credit_account_id,
                           !.amount = self.amount]
    IN Staged(self, CreditAccountCreditRequired_mutate(self, event), event)

require_debit_account_refund(self, credit_account_error) ==
    LET event == [Event(self.id, self.version, "DebitAccountRefundRequired")
                    EXCEPT !.debit_account_id = self.debit_account_id,
                           !.amount = self.amount,
                           !.credit_account_error = credit_account_error]
    IN Staged(self, DebitAccountRefundRequired_mutate(self, event), event)

was_debit_account_debited(self, event) ==
    /\ self.has_debit_account_debited = FALSE
    /\ event.originator_id = self.debit_account_id
    /\ event.amount = 0 - self.amount

was_credit_account_credited(self, event) ==
    /\ self.has_debit_account_debited = TRUE
    /\ event.originator_id = self.credit_account_id
    /\ event.amount = self.amount

\* The refund is looked for with the sign of the debit.
Mutant_was_debit_account_refunded(self, event) ==
    /\ self.has_debit_account_debited = TRUE
    /\ event.originator_id = self.debit_account_id
    /\ event.amount = 0 - self.amount

was_debit_account_refunded(self, event) ==
    /\ self.has_debit_account_debited = TRUE
    /\ event.originator_id = self.debit_account_id
    /\ event.amount = self.amount

has_debit_account_errored(self, event) ==
    event.originator_id = self.debit_account_id

has_credit_account_errored(self, event) ==
    event.originator_id = self.credit_account_id

\* The handler forgets to record the success.
Mutant_BaseSaga_on_bank_account_transaction_appended(self, event) == self

BaseSaga_on_bank_account_transaction_appended(self, event) ==
    record_has_succeeded(self)

BaseSaga_on_bank_account_error_recorded(self, event) ==
    record_has_errored(self, event.error)

\* The override is missing: the base class's handler runs for a transfer.
Mutant_TransferFundsSaga_on_bank_account_transaction_appended(self, event) ==
    record_has_succeeded(self)

\* Success is recorded as soon as the debit has been applied.
Mutant_TransferFundsSaga_eager_success(self, event) ==
    IF was_debit_account_debited(self, event)
    THEN record_has_succeeded(require_credit_account_credit(self))
    ELSE IF was_credit_account_credited(self, event) THEN record_has_succeeded(self)
    ELSE IF was_debit_account_refunded(self, event) THEN record_has_errored(self, NoError)
    ELSE self

\* A TransactionAppended that matches no condition is recorded as an error.
Mutant_TransferFundsSaga_unmatched_errors(self, event) ==
    IF was_debit_account_debited(self, event) THEN require_credit_account_credit(self)
    ELSE IF was_credit_account_credited(self, event) THEN record_has_succeeded(self)
    ELSE record_has_errored(self, NoError)

TransferFundsSaga_on_bank_account_transaction_appended(self, event) ==
    IF was_debit_account_debited(self, event) THEN require_credit_account_credit(self)
    ELSE IF was_credit_account_credited(self, event) THEN record_has_succeeded(self)
    ELSE IF was_debit_account_refunded(self, event) THEN record_has_errored(self, NoError)
    ELSE self

\* Every error is answered with a refund, the debit's own error too.
Mutant_TransferFundsSaga_on_bank_account_error_recorded(self, event) ==
    IF has_credit_account_errored(self, event) \/ has_debit_account_errored(self, event)
    THEN require_debit_account_refund(self, event.error)
    ELSE self

\* A refused refund is asked for again.
Mutant_TransferFundsSaga_retry_refund(self, event) ==
    IF has_debit_account_errored(self, event) /\ ~self.has_debit_account_debited
    THEN record_has_errored(self, event.error)
    ELSE IF has_credit_account_errored(self, event) \/ has_debit_account_errored(self, event)
    THEN require_debit_account_refund(self, event.error)
    ELSE self

\* The credit account's branch is tried before the debit account's.
Mutant_TransferFundsSaga_credit_error_first(self, event) ==
    IF has_credit_account_errored(self, event)
    THEN require_debit_account_refund(self, event.error)
    ELSE IF has_debit_account_errored(self, event) THEN record_has_errored(self, event.error)
    ELSE self

TransferFundsSaga_on_bank_account_error_recorded(self, event) ==
    IF has_debit_account_errored(self, event) THEN record_has_errored(self, event.error)
    ELSE IF has_credit_account_errored(self, event)
    THEN require_debit_account_refund(self, event.error)
    ELSE self

\* Method dispatch on the saga's class.
on_bank_account_transaction_appended(self, event) ==
    IF self.kind = TransferFundsSaga
    THEN TransferFundsSaga_on_bank_account_transaction_appended(self, event)
    ELSE BaseSaga_on_bank_account_transaction_appended(self, event)

on_bank_account_error_recorded(self, event) ==
    IF self.kind = TransferFundsSaga
    THEN TransferFundsSaga_on_bank_account_error_recorded(self, event)
    ELSE BaseSaga_on_bank_account_error_recorded(self, event)

\* ---------------------------------------------------------------- commands
VARIABLES
    commandsLog,    \* notification log of the Commands application
    sagasLog,       \* notification log (and event store) of Sagas
    accountsLog,    \* notification log (and event store) of Accounts
    tracking,       \* last processed upstream position, per follower and upstream
    accountsWork,   \* Accounts' processing attempt in flight
    clientWork,     \* aggregates loaded and changed by client calls, not yet saved
    halted,         \* applications stopped by a non-domain policy exception
    heldAccount,    \* a BankAccount held in memory, as its method calls left it
    raised          \* the exception the last call on that account raised

systemVars == <<commandsLog, sagasLog, accountsLog, tracking, accountsWork,
                clientWork, halted>>
aggregateVars == <<heldAccount, raised>>
vars == <<systemVars, aggregateVars>>

CommandCreate(kind, originator_id, debit_account_id, credit_account_id, amount) ==
    [Event(originator_id, 0, kind \o ".Created")
       EXCEPT !.debit_account_id = debit_account_id,
              !.credit_account_id = credit_account_id,
              !.amount = amount]

\* The accounts that exist, and the ids a client can pass to a command.
CreatedAccounts == {AccountIds[i] : i \in {j \in 1..Len(AccountIds) : InRepository(accountsLog, AccountIds[j])}}
KnownIds == CreatedAccounts \cup {NoAccount}

\* Command.__create__ draws a fresh uuid: the next unused id.
NextCommandId == Len(commandsLog) + 1

deposit_funds(credit_account_id, amount) ==
    /\ Len(commandsLog) < MaxCommands
    /\ commandsLog' = Append(commandsLog,
            CommandCreate("DepositFundsCommand", NextCommandId, None, credit_account_id, amount))
    /\ UNCHANGED <<sagasLog, accountsLog, tracking, accountsWork,
                   clientWork, halted>>
    /\ UNCHANGED aggregateVars

withdraw_funds(debit_account_id, amount) ==
    /\ Len(commandsLog) < MaxCommands
    /\ commandsLog' = Append(commandsLog,
            CommandCreate("WithdrawFundsCommand", NextCommandId, debit_account_id, None, amount))
    /\ UNCHANGED <<sagasLog, accountsLog, tracking, accountsWork,
                   clientWork, halted>>
    /\ UNCHANGED aggregateVars

transfer_funds(debit_account_id, credit_account_id, amount) ==
    /\ Len(commandsLog) < MaxCommands
    /\ commandsLog' = Append(commandsLog,
            CommandCreate("TransferFundsCommand", NextCommandId, debit_account_id,
                          credit_account_id, amount))
    /\ UNCHANGED <<sagasLog, accountsLog, tracking, accountsWork,
                   clientWork, halted>>
    /\ UNCHANGED aggregateVars

\* ---------------------------------------------------------------- policies
\* What a policy call leaves behind: the exception that escaped it (NoError
\* if none) and the pending events of the aggregates it touched or returned.
PolicyResult(r) == [raised |-> r.raised, events |-> r.obj.pending]
NoEvents == [raised |-> NoError, events |-> <<>>]

\* The domain error is caught and dropped: nothing is recorded.
Mutant_Accounts_append_transaction(log, transaction_id, account_id, amount) ==
    IF ~InRepository(log, account_id)
    THEN Raised(RepositoryKeyError, BankAccount(None))
    ELSE LET account == get_account(log, account_id)
             r == append_transaction(account, amount, transaction_id)
         IN IF IsTransactionError(r.raised)
            THEN Returned(r.obj)
            ELSE r

\* The transaction_id is not passed on to the account's methods.
Mutant_Accounts_append_transaction_no_id(log, transaction_id, account_id, amount) ==
    IF ~InRepository(log, account_id)
    THEN Raised(RepositoryKeyError, BankAccount(None))
    ELSE LET account == get_account(log, account_id)
             r == append_transaction(account, amount, NoId)
         IN IF IsTransactionError(r.raised)
            THEN record_error(r.obj, r.raised, NoId)
            ELSE r

\* record_error is called without the transaction_id.
Mutant_Accounts_append_transaction_error_no_id(log, transaction_id, account_id, amount) ==
    IF ~InRepository(log, account_id)
    THEN Raised(RepositoryKeyError, BankAccount(None))
    ELSE LET account == get_account(log, account_id)
             r == append_transaction(account, amount, transaction_id)
         IN IF IsTransactionError(r.raised)
            THEN record_error(r.obj, r.raised, NoId)
            ELSE r

\* An account that is not in the repository is skipped without an exception.
Mutant_Accounts_append_transaction_skip_unknown(log, transaction_id, account_id, amount) ==
    IF ~InRepository(log, account_id)
    THEN Returned(BankAccount(None))
    ELSE LET account == get_account(log, account_id)
             r == append_transaction(account, amount, transaction_id)
         IN IF IsTransactionError(r.raised)
            THEN record_error(r.obj, r.raised, transaction_id)
            ELSE r

Accounts_append_transaction(log, transaction_id, account_id, amount) ==
    IF ~InRepository(log, account_id)
    THEN Raised(RepositoryKeyError, BankAccount(None))
    ELSE LET account == get_account(log, account_id)
             r == append_transaction(account, amount, transaction_id)
         IN IF IsTransactionError(r.raised)
            THEN record_error(r.obj, r.raised, transaction_id)
            ELSE r

\* The first leg of a transfer is sent to the credit account.
Mutant_AccountsPolicy(log, event) ==
    CASE event.topic = "DepositFundsSaga.Created" ->
            PolicyResult(Accounts_append_transaction(
                log, event.originator_id, event.credit_account_id, event.amount))
      [] event.topic = "WithdrawFundsSaga.Created" ->
            PolicyResult(Accounts_append_transaction(
                log, event.originator_id, event.debit_account_id, 0 - event.amount))
      [] event.topic = "TransferFundsSaga.Created" ->
            PolicyResult(Accounts_append_transaction(
                log, event.originator_id, event.credit_account_id, event.amount))
      [] event.topic = "CreditAccountCreditRequired" ->
            PolicyResult(Accounts_append_transaction(
                log, event.originator_id, event.credit_account_id, event.amount))
      [] event.topic = "DebitAccountRefundRequired" ->
            PolicyResult(Accounts_append_transaction(
                log, event.originator_id, event.debit_account_id, event.amount))
      [] OTHER -> NoEvents

\* The refund is appended with the sign of the debit.
Mutant_AccountsPolicy_refund_sign(log, event) ==
    CASE event.topic = "DepositFundsSaga.Created" ->
            PolicyResult(Accounts_append_transaction(
                log, event.originator_id, event.credit_account_id, event.amount))
      [] event.topic = "WithdrawFundsSaga.Created" ->
            PolicyResult(Accounts_append_transaction(
                log, event.originator_id, event.debit_account_id, 0 - event.amount))
      [] event.topic = "TransferFundsSaga.Created" ->
            PolicyResult(Accounts_append_transaction(
                log, event.originator_id, event.debit_account_id, 0 - event.amount))
      [] event.topic = "CreditAccountCreditRequired" ->
            PolicyResult(Accounts_append_transaction(
                log, event.originator_id, event.credit_account_id, event.amount))
      [] event.topic = "DebitAccountRefundRequired" ->
            PolicyResult(Accounts_append_transaction(
                log, event.originator_id, event.debit_account_id, 0 - event.amount))
      [] OTHER -> NoEvents

\* A deposit goes to the first account, whatever account the saga names.
Mutant_AccountsPolicy_deposit_account(log, event) ==
    CASE event.topic = "DepositFundsSaga.Created" ->
            PolicyResult(Accounts_append_transaction(
                log, event.originator_id, AccountIds[1], event.amount))
      [] event.topic = "WithdrawFundsSaga.Created" ->
            PolicyResult(Accounts_append_transaction(
                log, event.originator_id, event.debit_account_id, 0 - event.amount))
      [] event.topic = "TransferFundsSaga.Created" ->
            PolicyResult(Accounts_append_transaction(
                log, event.originator_id, event.debit_account_id, 0 - event.amount))
      [] event.topic = "CreditAccountCreditRequired" ->
            PolicyResult(Accounts_append_transaction(
                log, event.originator_id, event.credit_account_id, event.amount))
      [] event.topic = "DebitAccountRefundRequired" ->
            PolicyResult(Accounts_append_transaction(
                log, event.originator_id, event.debit_account_id, event.amount))
      [] OTHER -> NoEvents

AccountsPolicy(log, event) ==
    CASE event.topic = "DepositFundsSaga.Created" ->
            PolicyResult(Accounts_append_transaction(
                log, event.originator_id, event.credit_account_id, event.amount))
      [] event.topic = "WithdrawFundsSaga.Created" ->
            PolicyResult(Accounts_append_transaction(
                log, event.originator_id, event.debit_account_id, 0 - event.amount))
      [] event.topic = "TransferFundsSaga.Created" ->
            PolicyResult(Accounts_append_transaction(
                log, event.originator_id, event.debit_account_id, 0 - event.amount))
      [] event.topic = "CreditAccountCreditRequired" ->
            PolicyResult(Accounts_append_transaction(
                log, event.originator_id, event.credit_account_id, event.amount))
      [] event.topic = "DebitAccountRefundRequired" ->
            PolicyResult(Accounts_append_transaction(
                log, event.originator_id, event.debit_account_id, event.amount))
      [] OTHER -> NoEvents

\* repository[event.transaction_id] of a saga that is not there.
SagaNotFound == [raised |-> RepositoryKeyError, events |-> <<>>]

SagasPolicy(log, event) ==
    CASE event.topic = "DepositFundsCommand.Created" ->
            PolicyResult(Returned(SagaCreate(DepositFundsSaga, event.originator_id,
                                             None, event.credit_account_id, event.amount)))
      [] event.topic = "WithdrawFundsCommand.Created" ->
            PolicyResult(Returned(SagaCreate(WithdrawFundsSaga, event.originator_id,
                                             event.debit_account_id, None, event.amount)))
      [] event.topic = "TransferFundsCommand.Created" ->
            PolicyResult(Returned(SagaCreate(TransferFundsSaga, event.originator_id,
                                             event.debit_account_id, event.credit_account_id,
                                             event.amount)))
      [] event.topic = "TransactionAppended" ->
            IF ~InRepository(log, event.transaction_id) THEN SagaNotFound
            ELSE PolicyResult(Returned(on_bank_account_transaction_appended(
                    get_saga(log, event.transaction_id), event)))
      [] event.topic = "ErrorRecorded" ->
            IF event.transaction_id = NoId THEN NoEvents
            ELSE IF ~InRepository(log, event.transaction_id) THEN SagaNotFound
            ELSE PolicyResult(Returned(on_bank_account_error_recorded(
                    get_saga(log, event.transaction_id), event)))
      [] OTHER -> NoEvents

\* ----------------------------------------------------------------- runtime
Commands == "commands"
Sagas == "sagas"
Accounts == "accounts"

\* The pipeline Commands | Sagas | Accounts | Sagas: who follows whom.
Follows == {<<Sagas, Commands>>, <<Accounts, Sagas>>, <<Sagas, Accounts>>}

UpstreamLog(upstream) ==
    CASE upstream = Commands -> commandsLog
      [] upstream = Sagas -> sagasLog
      [] upstream = Accounts -> accountsLog

NoWork == [upstream |-> None, position |-> 0, events |-> <<>>]

\* A record (originator_id, originator_version) is unique in a store: a batch
\* whose events do not continue their streams is refused as a whole.
\* The store accepts every record, whatever its version.
Mutant_WriteConflict(log, events) ==
    FALSE

WriteConflict(log, events) ==
    \E i \in 1..Len(events) :
        events[i].originator_version #
            Len(Stream(log, events[i].originator_id))
            + Cardinality({j \in 1..(i - 1) : events[j].originator_id = events[i].originator_id})

\* The notification a follower reads next: the one after its tracked position.
\* The newest notification is read, not the one after the tracked position.
Mutant_NextNotification(follower, upstream) ==
    UpstreamLog(upstream)[Len(UpstreamLog(upstream))]

NextNotification(follower, upstream) ==
    UpstreamLog(upstream)[tracking[<<follower, upstream>>] + 1]

\* One processing attempt: the working set the policy call `r` on the next
\* notification leaves, to be written with that notification's position.
Attempt(follower, upstream, r) ==
    [raised |-> r.raised,
     work |-> [upstream |-> upstream,
               position |-> tracking[<<follower, upstream>>] + 1,
               events |-> r.events]]

CanPull(follower, upstream) ==
    /\ <<follower, upstream>> \in Follows
    /\ follower \notin halted
    /\ tracking[<<follower, upstream>>] < Len(UpstreamLog(upstream))

\* The atomic write of a processing attempt: the new events and the tracking
\* position together, or (on a conflict) nothing.
\* The position is recorded even when the events are refused.
Mutant_Committed(follower, work, log) ==
    [log |-> IF WriteConflict(log, work.events) THEN log ELSE log \o work.events,
     tracking |-> [tracking EXCEPT ![<<follower, work.upstream>>] = work.position]]

Committed(follower, work, log) ==
    IF WriteConflict(log, work.events)
    THEN [log |-> log, tracking |-> tracking]
    ELSE [log |-> log \o work.events,
          tracking |-> [tracking EXCEPT ![<<follower, work.upstream>>] = work.position]]

\* Sagas is the only writer of its store and nothing reads an attempt before
\* its write, so an attempt and its atomic write are one step; an attempt lost
\* before the write (a crash) changes nothing and is a stuttering step.
SagasProcess(upstream) ==
    /\ CanPull(Sagas, upstream)
    /\ LET a == Attempt(Sagas, upstream,
                         SagasPolicy(sagasLog, NextNotification(Sagas, upstream))) IN
         IF a.raised # NoError
         THEN halted' = halted \cup {Sagas} /\ UNCHANGED <<sagasLog, tracking>>
         ELSE /\ sagasLog' = Committed(Sagas, a.work, sagasLog).log
              /\ tracking' = Committed(Sagas, a.work, sagasLog).tracking
              /\ UNCHANGED halted
    /\ UNCHANGED <<commandsLog, accountsLog, accountsWork, clientWork>>
    /\ UNCHANGED aggregateVars

AccountsPull ==
    /\ accountsWork = NoWork
    /\ CanPull(Accounts, Sagas)
    /\ LET a == Attempt(Accounts, Sagas,
                         AccountsPolicy(accountsLog, NextNotification(Accounts, Sagas))) IN
         IF a.raised # NoError
         THEN halted' = halted \cup {Accounts} /\ UNCHANGED accountsWork
         ELSE accountsWork' = a.work /\ UNCHANGED halted
    /\ UNCHANGED <<commandsLog, sagasLog, accountsLog, tracking, clientWork>>
    /\ UNCHANGED aggregateVars

AccountsCommit ==
    /\ accountsWork # NoWork
    /\ accountsLog' = Committed(Accounts, accountsWork, accountsLog).log
    /\ tracking' = Committed(Accounts, accountsWork, accountsLog).tracking
    /\ accountsWork' = NoWork
    /\ UNCHANGED <<commandsLog, sagasLog, clientWork, halted>>
    /\ UNCHANGED aggregateVars

AccountsAbort ==
    /\ accountsWork # NoWork
    /\ accountsWork' = NoWork
    /\ UNCHANGED <<commandsLog, sagasLog, accountsLog, tracking, clientWork, halted>>
    /\ UNCHANGED aggregateVars

\* ------------------------------------------------------------ client calls
\* Accounts.create_account: a new stream, so the save cannot conflict.
create_account ==
    /\ Cardinality(CreatedAccounts) < Len(AccountIds)
    /\ accountsLog' = accountsLog
            \o BankAccountCreate(AccountIds[Cardinality(CreatedAccounts) + 1]).pending
    /\ UNCHANGED <<commandsLog, sagasLog, tracking, accountsWork,
                   clientWork, halted>>
    /\ UNCHANGED aggregateVars

\* Events in the store or in flight that client calls on accounts authored.
ClientEvents ==
    Cardinality({i \in 1..Len(accountsLog) :
                    accountsLog[i].topic \in {"Closed", "OverdraftLimitSet"}})
    + Cardinality(clientWork)

\* The first half of a client call: load the account and call its method.
\* An exception reaches the caller and leaves nothing to save.
ClientCall(r) ==
    /\ ClientEvents < MaxClientOps
    /\ clientWork' = IF r.raised # NoError THEN clientWork
                     ELSE clientWork \cup {r.obj.pending}
    /\ UNCHANGED <<commandsLog, sagasLog, accountsLog, tracking, accountsWork, halted>>
    /\ UNCHANGED aggregateVars

Accounts_set_overdraft_limit(account_id, overdraft_limit) ==
    ClientCall(set_overdraft_limit(get_account(accountsLog, account_id), overdraft_limit))

Accounts_close_account(account_id) ==
    ClientCall(close(get_account(accountsLog, account_id)))

\* The second half: self.save(account). No retry surrounds it, so a conflict
\* with a concurrent writer reaches the caller.
ClientSave(events) ==
    /\ events \in clientWork
    /\ clientWork' = clientWork \ {events}
    /\ accountsLog' = IF WriteConflict(accountsLog, events) THEN accountsLog
                      ELSE accountsLog \o events
    /\ UNCHANGED <<commandsLog, sagasLog, tracking, accountsWork, halted>>
    /\ UNCHANGED aggregateVars

\* ----------------------------------------------------------- specification
Init ==
    /\ commandsLog = <<>>
    /\ sagasLog = <<>>
    /\ accountsLog = <<>>
    /\ tracking = [f \in Follows |-> 0]
    /\ accountsWork = NoWork
    /\ clientWork = {}
    /\ halted = {}
    /\ heldAccount = BankAccountCreate(AccountIds[1])
    /\ raised = NoError

Next ==
    \/ \E a \in KnownIds, amount \in Amounts : deposit_funds(a, amount)
    \/ \E a \in KnownIds, amount \in Amounts : withdraw_funds(a, amount)
    \/ \E a \in KnownIds, b \in KnownIds, amount \in Amounts : transfer_funds(a, b, amount)
    \/ \E upstream \in {Commands, Accounts} : SagasProcess(upstream)
    \/ AccountsPull
    \/ AccountsCommit
    \/ AccountsAbort
    \/ create_account
    \/ \E a \in CreatedAccounts, limit \in Limits : Accounts_set_overdraft_limit(a, limit)
    \/ \E a \in CreatedAccounts : Accounts_close_account(a)
    \/ \E events \in clientWork : ClientSave(events)

Spec == Init /\ [][Next]_vars

\* ------------------------------------------------- one aggregate in memory
\* A BankAccount and the calls of its methods, in any order and with any
\* arguments: what a caller holding the object can do to it.
MaxCalls == 4
MaxCallAmount == 2
MaxCallLimit == 2

CallAmounts == (0 - MaxCallAmount)..MaxCallAmount
CallLimits == (0 - 1)..MaxCallLimit
CallErrors == {AccountClosedError(heldAccount.id), InsufficientFundsError(heldAccount.id)}
CallTransactionIds == {NoId, 1}

Call(r) ==
    /\ Len(heldAccount.pending) <= MaxCalls
    /\ heldAccount' = r.obj
    /\ raised' = r.raised
    /\ UNCHANGED systemVars

Call_append_transaction(amount, transaction_id) ==
    Call(append_transaction(heldAccount, amount, transaction_id))

Call_set_overdraft_limit(overdraft_limit) ==
    Call(set_overdraft_limit(heldAccount, overdraft_limit))

Call_close ==
    Call(close(heldAccount))

Call_record_error(error, transaction_id) ==
    Call(record_error(heldAccount, error, transaction_id))

AggregateNext ==
    \/ \E amount \in CallAmounts, tid \in CallTransactionIds :
            Call_append_transaction(amount, tid)
    \/ \E limit \in CallLimits : Call_set_overdraft_limit(limit)
    \/ Call_close
    \/ \E error \in CallErrors, tid \in CallTransactionIds : Call_record_error(error, tid)

AggregateSpec == Init /\ [][AggregateNext]_vars

\* --------------------------------------------------------------- progress
\* The system when its process applications keep taking processing steps:
\* no attempt is lost, and a step that can be taken is taken eventually.
MaxLiveClientOps == 1

CanCall == ClientEvents < MaxLiveClientOps

LiveNext ==
    \/ \E a \in KnownIds, amount \in Amounts : deposit_funds(a, amount)
    \/ \E a \in KnownIds, amount \in Amounts : withdraw_funds(a, amount)
    \/ \E a \in KnownIds, b \in KnownIds, amount \in Amounts :
            transfer_funds(a, b, amount)
    \/ \E upstream \in {Commands, Accounts} : SagasProcess(upstream)
    \/ AccountsPull
    \/ AccountsCommit
    \/ create_account
    \/ \E a \in CreatedAccounts, limit \in Limits :
            CanCall /\ Accounts_set_overdraft_limit(a, limit)
    \/ \E a \in CreatedAccounts : CanCall /\ Accounts_close_account(a)
    \/ \E events \in clientWork : ClientSave(events)

LiveSpec ==
    /\ Init
    /\ [][LiveNext]_vars
    /\ WF_vars(SagasProcess(Commands))
    /\ WF_vars(SagasProcess(Accounts))
    /\ WF_vars(AccountsPull)
    /\ WF_vars(AccountsCommit)

\* ------------------------------------------------------------ observations
SagaIds == 1..Len(commandsLog)

\* Positions in the Accounts log of the events of topic `topic` that carry
\* transaction_id `tid` on account `account_id`.
AccountEvents(tid, account_id, topic) ==
    {i \in 1..Len(accountsLog) :
        /\ accountsLog[i].transaction_id = tid
        /\ accountsLog[i].originator_id = account_id
        /\ accountsLog[i].topic = topic}

TransactionEvents(tid) ==
    {i \in 1..Len(accountsLog) : accountsLog[i].transaction_id = tid}

RECURSIVE SumAmounts(_)
SumAmounts(positions) ==
    IF positions = {} THEN 0
    ELSE LET i == CHOOSE x \in positions : TRUE
         IN accountsLog[i].amount + SumAmounts(positions \ {i})

\* What saga `tid` has added to the balance of `account_id`.
BalanceChange(tid, account_id) ==
    SumAmounts(AccountEvents(tid, account_id, "TransactionAppended"))

IsTransfer(tid) ==
    /\ InRepository(sagasLog, tid)
    /\ get_saga(sagasLog, tid).kind = TransferFundsSaga

\* C1: a transfer saga that has errored has left the balance of its debit
\* account and of its credit account as they were: the amounts appended for
\* it sum to zero on each of the two accounts.
C1_ConservationUnderFailure ==
    \A tid \in SagaIds :
        (IsTransfer(tid) /\ get_saga(sagasLog, tid).has_errored) =>
            /\ BalanceChange(tid, get_saga(sagasLog, tid).debit_account_id) = 0
            /\ BalanceChange(tid, get_saga(sagasLog, tid).credit_account_id) = 0

\* C2: a transfer saga that has succeeded has exactly two TransactionAppended
\* events: -amount on the debit account, then +amount on the credit account.
C2_ConservationUnderSuccess ==
    \A tid \in SagaIds :
        (IsTransfer(tid) /\ get_saga(sagasLog, tid).has_succeeded) =>
            LET saga == get_saga(sagasLog, tid)
                appended == {i \in TransactionEvents(tid) :
                                accountsLog[i].topic = "TransactionAppended"}
            IN /\ Cardinality(appended) = 2
               /\ \E i \in appended, j \in appended :
                    /\ i < j
                    /\ accountsLog[i].originator_id = saga.debit_account_id
                    /\ accountsLog[i].amount = 0 - saga.amount
                    /\ accountsLog[j].originator_id = saga.credit_account_id
                    /\ accountsLog[j].amount = saga.amount
               /\ SumAmounts(appended) = 0

C2_Witness ==
    \E tid \in SagaIds :
        /\ IsTransfer(tid)
        /\ get_saga(sagasLog, tid).has_succeeded
        /\ get_saga(sagasLog, tid).debit_account_id # get_saga(sagasLog, tid).credit_account_id
        /\ get_saga(sagasLog, tid).amount > 0

\* C4: the balance of a BankAccount never lies below minus its overdraft
\* limit, whatever methods were called on it.
C4_AccountSolvency ==
    heldAccount.balance >= 0 - heldAccount.overdraft_limit

Submitted(tid) == Len(commandsLog) >= tid

Terminal(tid) ==
    /\ InRepository(sagasLog, tid)
    /\ \/ get_saga(sagasLog, tid).has_succeeded
       \/ get_saga(sagasLog, tid).has_errored

\* C3 as claimed: every submitted command's saga eventually has has_succeeded
\* or has_errored set.
C3_SagaTerminality ==
    \A tid \in 1..MaxCommands : Submitted(tid) ~> Terminal(tid)

\* C3 as amended: every submitted command's saga eventually has has_succeeded
\* or has_errored set, unless Accounts is halted by a saga event that names an
\* account that does not exist.
C3_SagaTerminalityUnlessHalted ==
    \A tid \in 1..MaxCommands : Submitted(tid) ~> (Terminal(tid) \/ Accounts \in halted)

C3_Witness ==
    \E tid \in SagaIds :
        /\ IsTransfer(tid)
        /\ get_saga(sagasLog, tid).has_errored
        /\ get_saga(sagasLog, tid).has_debit_account_debited
        /\ BalanceChange(tid, get_saga(sagasLog, tid).debit_account_id) = 0
        /\ halted = {}

\* The events Accounts has stored for saga `tid`, in the order it stored them.
Outcomes(tid) == SelectSeq(accountsLog, LAMBDA e : e.transaction_id = tid)

\* The account as it was when the event at `originator_version` was authored.
AccountBefore(event) ==
    ReplayBankAccount(Stream(accountsLog, event.originator_id), event.originator_version)

AccountAfter(event) ==
    ReplayBankAccount(Stream(accountsLog, event.originator_id), event.originator_version + 1)

\* C5: in an account's stream no TransactionAppended and no OverdraftLimitSet
\* follows a Closed event, and balance and overdraft limit are what they were
\* when the account was first closed.
C5_ClosedAccount ==
    \A a \in CreatedAccounts :
        LET stream == Stream(accountsLog, a) IN
        \A i \in 1..Len(stream) :
            stream[i].topic = "Closed" =>
                /\ \A j \in (i + 1)..Len(stream) :
                        stream[j].topic \notin {"TransactionAppended", "OverdraftLimitSet"}
                /\ get_account(accountsLog, a).is_closed
                /\ get_account(accountsLog, a).balance = ReplayBankAccount(stream, i).balance
                /\ get_account(accountsLog, a).overdraft_limit
                        = ReplayBankAccount(stream, i).overdraft_limit

\* A writer that loaded the account while it was open holds a transaction to
\* save, and the account has been closed since.
C5_Witness ==
    /\ accountsWork # NoWork
    /\ Len(accountsWork.events) = 1
    /\ accountsWork.events[1].topic = "TransactionAppended"
    /\ get_account(accountsLog, accountsWork.events[1].originator_id).is_closed

\* The saga events that ask Accounts for a transaction (the legs).
IsLeg(event) ==
    event.topic \in {"DepositFundsSaga.Created", "WithdrawFundsSaga.Created",
                     "TransferFundsSaga.Created", "CreditAccountCreditRequired",
                     "DebitAccountRefundRequired"}

\* The legs of saga `tid` that Accounts has processed, in order.
ProcessedLegs(tid) ==
    SelectSeq(SubSeq(sagasLog, 1, tracking[<<Accounts, Sagas>>]),
              LAMBDA e : e.originator_id = tid /\ IsLeg(e))

\* The account a leg is about and the signed amount it asks for.
LegAccount(leg) ==
    IF leg.topic \in {"DepositFundsSaga.Created", "CreditAccountCreditRequired"}
    THEN leg.credit_account_id
    ELSE leg.debit_account_id

LegAmount(leg) ==
    IF leg.topic \in {"WithdrawFundsSaga.Created", "TransferFundsSaga.Created"}
    THEN 0 - leg.amount
    ELSE leg.amount

Accepts(acct, amount) ==
    /\ ~acct.is_closed
    /\ acct.balance + amount >= 0 - acct.overdraft_limit

RECURSIVE AfterNotifications(_, _, _, _)
AfterNotifications(tid, stream, i, n) ==
    IF i > n THEN stream
    ELSE IF accountsLog[i].transaction_id = tid
         THEN AfterNotifications(tid,
                    stream \o SagasPolicy(stream, accountsLog[i]).events, i + 1, n)
         ELSE AfterNotifications(tid, stream, i + 1, n)

\* The stream saga `tid` has when Sagas has applied its policy, once each and
\* in order, to the first `c` notifications of Commands and to the first `n`
\* notifications of Accounts.
ExpectedSagaStream(tid, c, n) ==
    AfterNotifications(tid,
        IF tid <= c THEN SagasPolicy(<<>>, commandsLog[tid]).events ELSE <<>>,
        1, n)

\* C7: the store of each follower holds the effects of the upstream
\* notifications up to its tracked position, each once, and of no later one:
\* Accounts holds one event per leg among the first tracking[Accounts, Sagas]
\* notifications of Sagas, and each saga's stream is what the policy makes of
\* the first tracking[Sagas, Commands] commands and the first
\* tracking[Sagas, Accounts] notifications of Accounts.
C7_ExactlyOnce ==
    /\ \A f \in Follows : tracking[f] <= Len(UpstreamLog(f[2]))
    /\ \A i \in 1..Len(accountsLog) :
            accountsLog[i].transaction_id # NoId =>
                accountsLog[i].transaction_id \in SagaIds
    /\ \A i \in 1..Len(sagasLog) : sagasLog[i].originator_id \in SagaIds
    /\ \A tid \in SagaIds :
        /\ Len(Outcomes(tid)) = Len(ProcessedLegs(tid))
        /\ Stream(sagasLog, tid) =
                ExpectedSagaStream(tid, tracking[<<Sagas, Commands>>],
                                   tracking[<<Sagas, Accounts>>])

\* Accounts has processed a notification of Sagas and its attempt at the next
\* one is in flight with events the store will refuse: a client's event has
\* taken their version, so the attempt is aborted and made again.
C7_Witness ==
    /\ tracking[<<Accounts, Sagas>>] >= 1
    /\ accountsWork # NoWork
    /\ accountsWork.position = tracking[<<Accounts, Sagas>>] + 1
    /\ WriteConflict(accountsLog, accountsWork.events)

\* A deposit or withdraw saga, the account its one leg is about and the
\* signed amount it asks Accounts to append.
IsSingleLeg(tid) ==
    /\ InRepository(sagasLog, tid)
    /\ get_saga(sagasLog, tid).kind \in {DepositFundsSaga, WithdrawFundsSaga}

Target(saga) ==
    IF saga.kind = DepositFundsSaga THEN saga.credit_account_id
    ELSE saga.debit_account_id

SignedAmount(saga) ==
    IF saga.kind = DepositFundsSaga THEN saga.amount ELSE 0 - saga.amount

\* Sagas has processed the notification at position i of the Accounts log.
SagasHasProcessed(i) == i <= tracking[<<Sagas, Accounts>>]

\* C8: when the transaction of a deposit or withdraw is rejected, its one
\* event on the target account is an ErrorRecorded with AccountClosedError or
\* InsufficientFundsError naming that account, the balance is unchanged, the
\* saga never succeeds, and once Sagas has processed the event the saga has
\* errored with exactly that error.
C8_FailedSingleLeg ==
    \A tid \in SagaIds :
        IsSingleLeg(tid) =>
            LET saga == get_saga(sagasLog, tid) IN
            \A i \in TransactionEvents(tid) :
                LET before == AccountBefore(accountsLog[i]) IN
                ~Accepts(before, SignedAmount(saga)) =>
                    /\ TransactionEvents(tid) = {i}
                    /\ accountsLog[i].topic = "ErrorRecorded"
                    /\ accountsLog[i].originator_id = Target(saga)
                    /\ accountsLog[i].error =
                            IF before.is_closed THEN AccountClosedError(Target(saga))
                            ELSE InsufficientFundsError(Target(saga))
                    /\ AccountAfter(accountsLog[i]).balance = before.balance
                    /\ BalanceChange(tid, Target(saga)) = 0
                    /\ ~saga.has_succeeded
                    /\ saga.has_errored = SagasHasProcessed(i)
                    /\ saga.errors = IF SagasHasProcessed(i)
                                     THEN <<accountsLog[i].error>> ELSE <<>>

\* A withdrawal was refused for lack of funds and its saga has errored.
C8_Witness ==
    \E tid \in SagaIds :
        /\ IsSingleLeg(tid)
        /\ get_saga(sagasLog, tid).kind = WithdrawFundsSaga
        /\ get_saga(sagasLog, tid).has_errored
        /\ get_saga(sagasLog, tid).errors
                = <<InsufficientFundsError(get_saga(sagasLog, tid).debit_account_id)>>

\* C9: when the transaction of a deposit (withdraw) is accepted, its one event
\* on the target account is a TransactionAppended of +amount (-amount), the
\* balance changes by exactly that, the saga never errors, and once Sagas has
\* processed the event the saga has succeeded.
C9_SuccessfulSingleLeg ==
    \A tid \in SagaIds :
        IsSingleLeg(tid) =>
            LET saga == get_saga(sagasLog, tid) IN
            \A i \in TransactionEvents(tid) :
                LET before == AccountBefore(accountsLog[i]) IN
                Accepts(before, SignedAmount(saga)) =>
                    /\ TransactionEvents(tid) = {i}
                    /\ accountsLog[i].topic = "TransactionAppended"
                    /\ accountsLog[i].originator_id = Target(saga)
                    /\ accountsLog[i].amount = SignedAmount(saga)
                    /\ AccountAfter(accountsLog[i]).balance
                            = before.balance + SignedAmount(saga)
                    /\ BalanceChange(tid, Target(saga)) = SignedAmount(saga)
                    /\ ~saga.has_errored
                    /\ saga.errors = <<>>
                    /\ saga.has_succeeded = SagasHasProcessed(i)

\* A withdrawal of a positive amount was accepted and its saga has succeeded.
C9_Witness ==
    \E tid \in SagaIds :
        /\ IsSingleLeg(tid)
        /\ get_saga(sagasLog, tid).kind = WithdrawFundsSaga
        /\ get_saga(sagasLog, tid).amount > 0
        /\ get_saga(sagasLog, tid).has_succeeded
        /\ BalanceChange(tid, get_saga(sagasLog, tid).debit_account_id) < 0

\* The position in the Accounts log of the outcome of a saga's first leg: for
\* a transfer, of its debit.
FirstOutcome(tid) ==
    CHOOSE i \in TransactionEvents(tid) : \A j \in TransactionEvents(tid) : i <= j

\* The debit of transfer `tid` has been processed by Accounts and the debit
\* account, as it then was, did not accept it.
DebitRejected(tid) ==
    /\ IsTransfer(tid)
    /\ TransactionEvents(tid) # {}
    /\ ~Accepts(AccountBefore(accountsLog[FirstOutcome(tid)]),
                0 - get_saga(sagasLog, tid).amount)

\* What C10 says of the saga and of the debit account.
DebitRejectedOutcome(tid) ==
    LET saga == get_saga(sagasLog, tid)
        i == FirstOutcome(tid)
        before == AccountBefore(accountsLog[i])
    IN /\ accountsLog[i].topic = "ErrorRecorded"
       /\ accountsLog[i].originator_id = saga.debit_account_id
       /\ accountsLog[i].error =
                IF before.is_closed THEN AccountClosedError(saga.debit_account_id)
                ELSE InsufficientFundsError(saga.debit_account_id)
       /\ \A k \in 1..Len(Stream(sagasLog, tid)) :
                Stream(sagasLog, tid)[k].topic \notin
                    {"CreditAccountCreditRequired", "DebitAccountRefundRequired",
                     "Succeeded"}
       /\ ~saga.has_succeeded
       /\ ~saga.has_debit_account_debited
       /\ saga.has_errored = SagasHasProcessed(i)
       /\ saga.errors = IF SagasHasProcessed(i) THEN <<accountsLog[i].error>> ELSE <<>>

\* Positions of the events that carry `tid` on the credit account of saga `tid`.
OnCreditAccount(tid) ==
    {i \in TransactionEvents(tid) :
        accountsLog[i].originator_id = get_saga(sagasLog, tid).credit_account_id}

\* C10 as claimed: when the debit of a transfer is rejected the saga errors
\* with exactly the debit error, asks for no credit and no refund, and no
\* event carrying its transaction_id is on the credit account.
C10_FailingDebitLeg ==
    \A tid \in SagaIds :
        DebitRejected(tid) =>
            /\ DebitRejectedOutcome(tid)
            /\ OnCreditAccount(tid) = {}

\* C10 as amended: when the debit of a transfer is rejected the saga errors
\* with exactly the debit error, asks for no credit and no refund, and the
\* ErrorRecorded of the debit is the only event that carries its
\* transaction_id: nothing else is on the credit account, whose balance the
\* transfer leaves alone.
C10_FailingDebitLegOnlyItsError ==
    \A tid \in SagaIds :
        DebitRejected(tid) =>
            /\ DebitRejectedOutcome(tid)
            /\ TransactionEvents(tid) = {FirstOutcome(tid)}
            /\ OnCreditAccount(tid) \subseteq {FirstOutcome(tid)}
            /\ BalanceChange(tid, get_saga(sagasLog, tid).credit_account_id) = 0

\* A transfer between two accounts was refused at its debit for lack of funds
\* and its saga has errored.
C10_Witness ==
    \E tid \in SagaIds :
        /\ DebitRejected(tid)
        /\ get_saga(sagasLog, tid).has_errored
        /\ get_saga(sagasLog, tid).debit_account_id
                # get_saga(sagasLog, tid).credit_account_id
        /\ get_saga(sagasLog, tid).errors
                = <<InsufficientFundsError(get_saga(sagasLog, tid).debit_account_id)>>

\* The credit leg of transfer `tid` has been processed by Accounts and was
\* rejected: the outcome of its CreditAccountCreditRequired is an ErrorRecorded.
CreditRejected(tid) ==
    /\ IsTransfer(tid)
    /\ Len(Outcomes(tid)) >= 2
    /\ ProcessedLegs(tid)[2].topic = "CreditAccountCreditRequired"
    /\ Outcomes(tid)[2].topic = "ErrorRecorded"

\* C11: a transfer whose credit leg was rejected with error e never succeeds,
\* and once it has errored its errors are exactly <<e>>: the terminal Errored
\* adds no further error.
C11_FailingCreditLeg ==
    \A tid \in SagaIds :
        CreditRejected(tid) =>
            /\ ~get_saga(sagasLog, tid).has_succeeded
            /\ get_saga(sagasLog, tid).has_errored =>
                    get_saga(sagasLog, tid).errors = <<Outcomes(tid)[2].error>>

\* The save of a client call is refused by the store: with no retry around
\* self.save(account), the ConcurrencyConflict is raised to the caller.
ConflictReachesClient ==
    \E events \in clientWork :
        /\ WriteConflict(accountsLog, events)
        /\ ClientSave(events)

\* C12: no step of the system is a client call that ends with a
\* ConcurrencyConflict: a save that loses a race is never raised to the
\* caller of close_account or set_overdraft_limit.
C12_NoConflictReachesClients == [][~ConflictReachesClient]_vars

\* The next notification of Accounts is routed to a transfer saga: Sagas can
\* pull it, it carries a transaction_id and the saga with that id is a
\* TransferFundsSaga.
RoutedToTransfer ==
    /\ CanPull(Sagas, Accounts)
    /\ NextNotification(Sagas, Accounts).topic \in {"TransactionAppended", "ErrorRecorded"}
    /\ NextNotification(Sagas, Accounts).transaction_id # NoId
    /\ IsTransfer(NextNotification(Sagas, Accounts).transaction_id)

\* How many of the transition conditions of the saga hold for the event.
ConditionsHolding(saga, event) ==
    IF event.topic = "TransactionAppended"
    THEN Cardinality({c \in {"debited", "credited", "refunded"} :
            \/ c = "debited" /\ was_debit_account_debited(saga, event)
            \/ c = "credited" /\ was_credit_account_credited(saga, event)
            \/ c = "refunded" /\ was_debit_account_refunded(saga, event)})
    ELSE Cardinality({c \in {"debit", "credit"} :
            \/ c = "debit" /\ has_debit_account_errored(saga, event)
            \/ c = "credit" /\ has_credit_account_errored(saga, event)})

\* C13: for every TransactionAppended or ErrorRecorded event routed to a
\* transfer saga, at most one of the saga's transition conditions holds.
C13_ExclusiveTransitions ==
    RoutedToTransfer =>
        ConditionsHolding(
            get_saga(sagasLog, NextNotification(Sagas, Accounts).transaction_id),
            NextNotification(Sagas, Accounts)) <= 1

\* The kind of saga the policy of Sagas creates for a command.
SagaKindOfCommand(topic) ==
    CASE topic = "DepositFundsCommand.Created" -> DepositFundsSaga
      [] topic = "WithdrawFundsCommand.Created" -> WithdrawFundsSaga
      [] topic = "TransferFundsCommand.Created" -> TransferFundsSaga
      [] OTHER -> None

\* The events of Accounts that answer saga events, stored or in flight.
IsOutcome(event) == event.topic \in {"TransactionAppended", "ErrorRecorded"}

\* C14: the saga created for a command has the command's originator_id, its
\* account ids and its amount; every TransactionAppended and ErrorRecorded
\* that Accounts emits while processing a saga event carries that saga's id
\* as transaction_id, and every such event in the store carries the id of a
\* saga that has a processed leg for it.
C14_Correlation ==
    /\ \A k \in 1..Len(sagasLog) :
            /\ sagasLog[k].originator_id \in SagaIds
            /\ SagaKindOfCreated(sagasLog[k].topic) # None =>
                LET command == commandsLog[sagasLog[k].originator_id] IN
                /\ command.originator_id = sagasLog[k].originator_id
                /\ SagaKindOfCommand(command.topic) = SagaKindOfCreated(sagasLog[k].topic)
                /\ sagasLog[k].debit_account_id = command.debit_account_id
                /\ sagasLog[k].credit_account_id = command.credit_account_id
                /\ sagasLog[k].amount = command.amount
    /\ \A tid \in SagaIds :
            InRepository(sagasLog, tid) =>
                LET saga == get_saga(sagasLog, tid) IN
                /\ saga.id = commandsLog[tid].originator_id
                /\ saga.kind = SagaKindOfCommand(commandsLog[tid].topic)
                /\ saga.debit_account_id = commandsLog[tid].debit_account_id
                /\ saga.credit_account_id = commandsLog[tid].credit_account_id
                /\ saga.amount = commandsLog[tid].amount
    /\ accountsWork # NoWork =>
            \A k \in 1..Len(accountsWork.events) :
                /\ IsOutcome(accountsWork.events[k])
                /\ accountsWork.events[k].transaction_id
                        = sagasLog[accountsWork.position].originator_id
    /\ \A i \in 1..Len(accountsLog) :
            IsOutcome(accountsLog[i]) =>
                /\ accountsLog[i].transaction_id \in SagaIds
                /\ InRepository(sagasLog, accountsLog[i].transaction_id)
                /\ Len(ProcessedLegs(accountsLog[i].transaction_id)) >= 1
                /\ accountsLog[i].originator_id \in
                        {LegAccount(ProcessedLegs(accountsLog[i].transaction_id)[k]) :
                            k \in 1..Len(ProcessedLegs(accountsLog[i].transaction_id))}

\* A transfer saga exists for a command that names two accounts, and Accounts
\* has stored an event for each of its two legs.
C14_Witness ==
    \E tid \in SagaIds :
        /\ IsTransfer(tid)
        /\ commandsLog[tid].debit_account_id # commandsLog[tid].credit_account_id
        /\ Len(Outcomes(tid)) >= 2
        /\ Outcomes(tid)[1].originator_id # Outcomes(tid)[2].originator_id

\* C15: close called on an already closed account raises no error, appends
\* one more Closed event (the version grows by one) and leaves is_closed
\* true and balance and overdraft_limit as they were; no call ever takes
\* is_closed from true back to false.
C15_IdempotentClose ==
    [][/\ heldAccount.is_closed => heldAccount'.is_closed
       /\ (heldAccount.is_closed /\ Call_close) =>
            /\ raised' = NoError
            /\ Len(heldAccount'.pending) = Len(heldAccount.pending) + 1
            /\ SubSeq(heldAccount'.pending, 1, Len(heldAccount.pending)) = heldAccount.pending
            /\ heldAccount'.pending[Len(heldAccount'.pending)].topic = "Closed"
            /\ heldAccount'.pending[Len(heldAccount'.pending)].originator_version
                    = heldAccount.version
            /\ heldAccount'.version = heldAccount.version + 1
            /\ heldAccount'.is_closed
            /\ heldAccount'.balance = heldAccount.balance
            /\ heldAccount'.overdraft_limit = heldAccount.overdraft_limit]_vars

\* close has just returned on an account that an earlier close had closed,
\* and the account holds a balance and an overdraft limit.
C15_Witness ==
    /\ raised = NoError
    /\ Len(heldAccount.pending) >= 2
    /\ heldAccount.pending[Len(heldAccount.pending)].topic = "Closed"
    /\ \E k \in 1..(Len(heldAccount.pending) - 1) : heldAccount.pending[k].topic = "Closed"
    /\ heldAccount.balance # 0
    /\ heldAccount.overdraft_limit # 0

\* C16: set_overdraft_limit with a limit > 0 on an open account appends one
\* OverdraftLimitSet and sets overdraft_limit to the limit; with a limit <= 0
\* it fails with an assertion error, and with a limit > 0 on a closed account
\* with AccountClosedError; a failed call appends no event and leaves the
\* account as it was; overdraft_limit is never negative.
C16_SetOverdraftLimit ==
    /\ heldAccount.overdraft_limit >= 0
    /\ [][/\ heldAccount'.overdraft_limit >= 0
          /\ \A limit \in CallLimits :
                Call_set_overdraft_limit(limit) =>
                    /\ (limit > 0 /\ ~heldAccount.is_closed) =>
                            /\ raised' = NoError
                            /\ heldAccount'.overdraft_limit = limit
                            /\ Len(heldAccount'.pending) = Len(heldAccount.pending) + 1
                            /\ heldAccount'.pending[Len(heldAccount'.pending)].topic
                                    = "OverdraftLimitSet"
                            /\ heldAccount'.pending[Len(heldAccount'.pending)].overdraft_limit
                                    = limit
                            /\ heldAccount'.balance = heldAccount.balance
                            /\ heldAccount'.is_closed = heldAccount.is_closed
                    /\ limit <= 0 =>
                            /\ raised' = AssertionError
                            /\ ~IsTransactionError(raised')
                            /\ heldAccount' = heldAccount
                    /\ (limit > 0 /\ heldAccount.is_closed) =>
                            /\ raised' = AccountClosedError(heldAccount.id)
                            /\ heldAccount' = heldAccount]_vars

\* A limit was set, the account was closed, and a later call with a limit
\* <= 0 has just failed its assertion.
C16_Witness ==
    /\ raised = AssertionError
    /\ heldAccount.overdraft_limit = MaxCallLimit
    /\ heldAccount.is_closed
    /\ \E k \in 1..Len(heldAccount.pending) : heldAccount.pending[k].topic = "OverdraftLimitSet"

\* C17: append_transaction(amount) appends one TransactionAppended and adds
\* the amount to the balance exactly when the account is not closed and
\* balance + amount >= -overdraft_limit, equality included; otherwise it
\* raises AccountClosedError or InsufficientFundsError naming the account,
\* appends no event and leaves balance, overdraft_limit, is_closed and
\* version unchanged.
C17_AppendTransaction ==
    [][\A amount \in CallAmounts, transaction_id \in CallTransactionIds :
        Call_append_transaction(amount, transaction_id) =>
            IF /\ ~heldAccount.is_closed
               /\ heldAccount.balance + amount >= 0 - heldAccount.overdraft_limit
            THEN /\ raised' = NoError
                 /\ heldAccount'.balance = heldAccount.balance + amount
                 /\ Len(heldAccount'.pending) = Len(heldAccount.pending) + 1
                 /\ heldAccount'.pending[Len(heldAccount'.pending)].topic
                        = "TransactionAppended"
                 /\ heldAccount'.pending[Len(heldAccount'.pending)].amount = amount
                 /\ heldAccount'.version = heldAccount.version + 1
                 /\ heldAccount'.overdraft_limit = heldAccount.overdraft_limit
                 /\ heldAccount'.is_closed = heldAccount.is_closed
            ELSE /\ raised' = IF heldAccount.is_closed
                              THEN AccountClosedError(heldAccount.id)
                              ELSE InsufficientFundsError(heldAccount.id)
                 /\ raised'.account_id = heldAccount.id
                 /\ heldAccount'.pending = heldAccount.pending
                 /\ heldAccount'.balance = heldAccount.balance
                 /\ heldAccount'.overdraft_limit = heldAccount.overdraft_limit
                 /\ heldAccount'.is_closed = heldAccount.is_closed
                 /\ heldAccount'.version = heldAccount.version]_vars

\* A withdrawal that took the balance exactly to minus the overdraft limit
\* has just been accepted.
C17_Witness ==
    /\ raised = NoError
    /\ heldAccount.overdraft_limit > 0
    /\ heldAccount.balance = 0 - heldAccount.overdraft_limit
    /\ heldAccount.pending[Len(heldAccount.pending)].topic = "TransactionAppended"
    /\ heldAccount.pending[Len(heldAccount.pending)].amount < 0

\* ------------------------------------------------- BankAccountApplication
\* The single application of application.py. It keeps its accounts in an
\* event store of its own, held here in accountsLog; clientWork holds the
\* batches of pending events its callers have staged and not yet saved.
MaxAppEvents == 4
MaxAppCallers == 2
MaxAppAmount == 2

AppAmounts == {x \in (0 - MaxAppAmount)..MaxAppAmount : x # 0}

ConcurrencyConflict == [type |-> "ConcurrencyConflict", account_id |-> None]

\* The store's append of a batch: every event is written, or none is.
\* Records are written one by one, and a refused record leaves the ones
\* before it in the store.
RECURSIVE Mutant_store_events(_, _)
Mutant_store_events(log, events) ==
    IF events = <<>> \/ WriteConflict(log, <<events[1]>>) THEN log
    ELSE Mutant_store_events(Append(log, events[1]), Tail(events))

store_events(log, events) ==
    IF WriteConflict(log, events) THEN log ELSE log \o events

AppCanCall ==
    /\ Len(accountsLog) < MaxAppEvents
    /\ Cardinality(clientWork) < MaxAppCallers

\* A method of the application up to its call of save: an exception leaves
\* nothing to save, otherwise the pending events wait to be saved.
AppCall(error, events) ==
    /\ AppCanCall
    /\ raised' = error
    /\ clientWork' = IF error # NoError THEN clientWork ELSE clientWork \cup {events}
    /\ UNCHANGED <<commandsLog, sagasLog, accountsLog, tracking, accountsWork, halted>>
    /\ UNCHANGED heldAccount

App_get_account(account_id) ==
    IF InRepository(accountsLog, account_id)
    THEN Returned(get_account(accountsLog, account_id))
    ELSE Raised(RepositoryKeyError, BankAccount(None))

App_create_account ==
    /\ Len(accountsLog) < MaxAppEvents
    /\ Cardinality(CreatedAccounts) < Len(AccountIds)
    /\ accountsLog' = store_events(accountsLog,
            BankAccountCreate(AccountIds[Cardinality(CreatedAccounts) + 1]).pending)
    /\ raised' = NoError
    /\ UNCHANGED <<commandsLog, sagasLog, tracking, accountsWork, clientWork, halted>>
    /\ UNCHANGED heldAccount

\* One account loaded and one method called on it.
AppCallOne(account_id, r) ==
    IF App_get_account(account_id).raised # NoError
    THEN AppCall(App_get_account(account_id).raised, <<>>)
    ELSE AppCall(r.raised, r.obj.pending)

App_deposit_funds(credit_account_id, amount) ==
    AppCallOne(credit_account_id,
               append_transaction(App_get_account(credit_account_id).obj, amount, NoId))

App_withdraw_funds(credit_account_id, amount) ==
    AppCallOne(credit_account_id,
               append_transaction(App_get_account(credit_account_id).obj, 0 - amount, NoId))

App_close_account(account_id) ==
    AppCallOne(account_id, close(App_get_account(account_id).obj))

\* transfer_funds up to its save: both accounts are loaded, the debit is
\* appended, then the credit; the first exception ends the call.
TransferCall(debit_account_id, credit_account_id, amount) ==
    LET debit_account == App_get_account(debit_account_id)
        credit_account == App_get_account(credit_account_id)
        debit == append_transaction(debit_account.obj, 0 - amount, NoId)
        credit == append_transaction(credit_account.obj, amount, NoId)
    IN IF debit_account.raised # NoError THEN [raised |-> debit_account.raised, events |-> <<>>]
       ELSE IF credit_account.raised # NoError THEN [raised |-> credit_account.raised, events |-> <<>>]
       ELSE IF debit.raised # NoError THEN [raised |-> debit.raised, events |-> <<>>]
       ELSE IF credit.raised # NoError THEN [raised |-> credit.raised, events |-> <<>>]
       ELSE [raised |-> NoError, events |-> debit.obj.pending \o credit.obj.pending]

App_transfer_funds(debit_account_id, credit_account_id, amount) ==
    AppCall(TransferCall(debit_account_id, credit_account_id, amount).raised,
            TransferCall(debit_account_id, credit_account_id, amount).events)

\* self.save(...): the staged batch goes to the store in one append.
App_save(events) ==
    /\ events \in clientWork
    /\ clientWork' = clientWork \ {events}
    /\ accountsLog' = store_events(accountsLog, events)
    /\ raised' = IF WriteConflict(accountsLog, events) THEN ConcurrencyConflict ELSE NoError
    /\ UNCHANGED <<commandsLog, sagasLog, tracking, accountsWork, halted>>
    /\ UNCHANGED heldAccount

ApplicationNext ==
    \/ App_create_account
    \/ \E a \in KnownIds, amount \in AppAmounts : App_deposit_funds(a, amount)
    \/ \E a \in KnownIds, amount \in AppAmounts : App_withdraw_funds(a, amount)
    \/ \E a \in KnownIds, b \in KnownIds, amount \in AppAmounts :
            App_transfer_funds(a, b, amount)
    \/ \E a \in KnownIds : App_close_account(a)
    \/ \E events \in clientWork : App_save(events)

ApplicationSpec == Init /\ [][ApplicationNext]_vars

\* get_balance as a reader of the store sees it; 0 for an unknown account.
StoredBalance(log, account_id) == get_account(log, account_id).balance

\* The batch a transfer stages: two events.
IsTransferBatch(events) == Len(events) = 2
\* C18: BankAccountApplication.transfer_funds is all-or-nothing. The call
\* itself writes nothing; when an account is unknown or closed or lacks the
\* funds it raises and stages nothing; otherwise it stages one batch of a
\* TransactionAppended of -amount on the debit account and one of +amount on
\* the credit account. The save of that batch either persists both events,
\* moving the two stored balances by -amount and +amount, or, on a conflict
\* with a concurrent writer of either account, persists neither and leaves
\* the store as it was: no store ever holds the debit without the credit.
C18_TransferAllOrNothing ==
    [][/\ \A d \in KnownIds, c \in KnownIds, amount \in AppAmounts :
            App_transfer_funds(d, c, amount) =>
                /\ accountsLog' = accountsLog
                /\ raised' # NoError => clientWork' = clientWork
                /\ (\/ get_account(accountsLog, d).is_closed
                    \/ get_account(accountsLog, c).is_closed
                    \/ StoredBalance(accountsLog, d) - amount
                            < 0 - get_account(accountsLog, d).overdraft_limit)
                        => raised' # NoError
                /\ raised' = NoError =>
                        \E events \in clientWork' :
                            /\ clientWork' = clientWork \cup {events}
                            /\ IsTransferBatch(events)
                            /\ events[1].topic = "TransactionAppended"
                            /\ events[1].originator_id = d
                            /\ events[1].amount = 0 - amount
                            /\ events[2].topic = "TransactionAppended"
                            /\ events[2].originator_id = c
                            /\ events[2].amount = amount
       /\ \A events \in clientWork :
            (IsTransferBatch(events) /\ App_save(events)) =>
                \/ /\ raised' = NoError
                   /\ accountsLog' = accountsLog \o events
                   /\ StoredBalance(accountsLog', events[1].originator_id)
                        = StoredBalance(accountsLog, events[1].originator_id)
                            + events[1].amount
                   /\ StoredBalance(accountsLog', events[2].originator_id)
                        = StoredBalance(accountsLog, events[2].originator_id)
                            + events[2].amount
                \/ /\ raised' = ConcurrencyConflict
                   /\ accountsLog' = accountsLog
                   /\ \A a \in KnownIds :
                        StoredBalance(accountsLog', a) = StoredBalance(accountsLog, a)]_vars

\* A transfer between two accounts is staged, and a concurrent writer has
\* since advanced the credit account only: the debit record alone would
\* still be accepted by the store.
C18_Witness ==
    \E events \in clientWork :
        /\ IsTransferBatch(events)
        /\ events[1].originator_id # events[2].originator_id
        /\ events[2].amount > 0
        /\ ~WriteConflict(accountsLog, <<events[1]>>)
        /\ WriteConflict(accountsLog, <<events[2]>>)
\* The ids of the streams of a store.
StreamIds(log) == {log[i].originator_id : i \in 1..Len(log)}

\* The stored events of a stream carry the versions 0..N-1 in order.
Dense(log) ==
    \A id \in StreamIds(log) :
        \A k \in 1..Len(Stream(log, id)) :
            Stream(log, id)[k].originator_version = k - 1

\* C19: in every store (commands, sagas, accounts) and after any interleaving
\* of the Accounts policy with client close_account, set_overdraft_limit and
\* create_account calls, the originator_version values of each stream are
\* exactly 0..N-1, with no gap and no duplicate: of two writers that loaded
\* the same version of a stream, at most one has its events in the store.
C19_VersionDensity ==
    /\ Dense(commandsLog)
    /\ Dense(sagasLog)
    /\ Dense(accountsLog)
    /\ \A id \in StreamIds(accountsLog) :
            \A i \in 1..Len(accountsLog), j \in 1..Len(accountsLog) :
                (/\ accountsLog[i].originator_id = id
                 /\ accountsLog[j].originator_id = id
                 /\ accountsLog[i].originator_version = accountsLog[j].originator_version)
                    => i = j

\* A client call and the Accounts policy loaded the same version of an
\* account; the policy's event is in the store at that version and the
\* client's events wait to be saved.
C19_Witness ==
    \E events \in clientWork :
        \E i \in 1..Len(accountsLog) :
            /\ accountsLog[i].originator_id = events[1].originator_id
            /\ accountsLog[i].originator_version = events[1].originator_version
            /\ accountsLog[i].topic \in {"TransactionAppended", "ErrorRecorded"}
\* The sum of the amounts of the TransactionAppended events among the first
\* n events.
RECURSIVE SumOfTransactions(_, _)
SumOfTransactions(events, n) ==
    IF n = 0 THEN 0
    ELSE SumOfTransactions(events, n - 1)
            + (IF events[n].topic = "TransactionAppended" THEN events[n].amount ELSE 0)

\* The positions of the events of a topic.
EventsOf(events, topic) == {k \in 1..Len(events) : events[k].topic = topic}

\* The value of the last OverdraftLimitSet, 0 if there is none.
LastOverdraftLimit(events) ==
    IF EventsOf(events, "OverdraftLimitSet") = {} THEN 0
    ELSE events[CHOOSE k \in EventsOf(events, "OverdraftLimitSet") :
                    \A j \in EventsOf(events, "OverdraftLimitSet") : j <= k].overdraft_limit

\* C20: the account rebuilt by replaying the events of a BankAccount from
\* version 0 equals the account in memory after the call that appended the
\* last of them; its balance is the sum of the amounts of its
\* TransactionAppended events, its overdraft_limit the value of its last
\* OverdraftLimitSet (0 if none), and it is closed exactly when the events
\* include a Closed.
C20_ReplayDeterminism ==
    LET events == heldAccount.pending
        replayed == ReplayBankAccount(events, Len(events))
    IN /\ replayed.id = heldAccount.id
       /\ replayed.version = heldAccount.version
       /\ replayed.balance = heldAccount.balance
       /\ replayed.overdraft_limit = heldAccount.overdraft_limit
       /\ replayed.is_closed = heldAccount.is_closed
       /\ replayed.version = Len(events)
       /\ replayed.balance = SumOfTransactions(events, Len(events))
       /\ replayed.overdraft_limit = LastOverdraftLimit(events)
       /\ replayed.is_closed <=> EventsOf(events, "Closed") # {}

\* An account in memory with a transaction, an overdraft limit set, an error
\* recorded and a close behind it.
C20_Witness ==
    /\ EventsOf(heldAccount.pending, "TransactionAppended") # {}
    /\ EventsOf(heldAccount.pending, "OverdraftLimitSet") # {}
    /\ EventsOf(heldAccount.pending, "Closed") # {}
    /\ EventsOf(heldAccount.pending, "ErrorRecorded") # {}
    /\ heldAccount.balance # 0

\* ------------------------------------------------------------ transcoding
\* A TransactionError as Python holds it: its class and its args tuple. The
\* domain model raises it with one argument, the payload {account_id}.
MaxArgs == 2

ArgValues ==
    {[account_id |-> a] : a \in {AccountIds[1], AccountIds[2], NoAccount, None}}

ArgTuples == UNION {[1..n -> ArgValues] : n \in 0..MaxArgs}

TransactionErrorTypes == {"AccountClosedError", "InsufficientFundsError"}

TransactionError(type, args) == [type |-> type, args |-> args]

TransactionErrors ==
    {TransactionError(type, args) : type \in TransactionErrorTypes, args \in ArgTuples}

\* Two errors with the same args are equal, whatever their classes.
Mutant_TransactionError_eq(self, other) ==
    self.args = other.args

TransactionError_eq(self, other) ==
    self.args = other.args /\ self.type = other.type

\* The topic of a class is its module path and its name; resolve_topic finds
\* the class a topic names.
get_topic(type) == "bankaccounts.exceptions#" \o type

resolve_topic(topic) ==
    CHOOSE type \in TransactionErrorTypes : get_topic(type) = topic

encode_exception(obj) ==
    [exception |-> [topic |-> get_topic(obj.type), args |-> obj.args]]

\* exception_class(*args): the elements of the stored args become the args.
decode_exception(d) ==
    TransactionError(resolve_topic(d.exception.topic),
                     [k \in 1..Len(d.exception.args) |-> d.exception.args[k]])

\* An error raised in Accounts travels to Sagas inside an ErrorRecorded
\* event: written to the Accounts store encoded, and decoded when the event
\* is read back.
TranscodingInit ==
    /\ commandsLog = <<>>
    /\ sagasLog = <<>>
    /\ accountsLog = <<>>
    /\ tracking = [f \in Follows |-> 0]
    /\ accountsWork = NoWork
    /\ clientWork = {}
    /\ halted = {}
    /\ heldAccount = BankAccountCreate(AccountIds[1])
    /\ raised \in TransactionErrors

StoreError ==
    /\ accountsLog = <<>>
    /\ accountsLog' = <<[Event(AccountIds[1], 1, "ErrorRecorded")
                            EXCEPT !.error = encode_exception(raised),
                                   !.transaction_id = 1]>>
    /\ UNCHANGED <<commandsLog, sagasLog, tracking, accountsWork, clientWork, halted>>
    /\ UNCHANGED aggregateVars

LoadError ==
    /\ accountsLog # <<>>
    /\ sagasLog = <<>>
    /\ sagasLog' = <<[Event(1, 1, "Errored")
                        EXCEPT !.error = decode_exception(accountsLog[1].error)]>>
    /\ UNCHANGED <<commandsLog, accountsLog, tracking, accountsWork, clientWork, halted>>
    /\ UNCHANGED aggregateVars

TranscodingNext ==
    \/ StoreError
    \/ LoadError

TranscodingSpec == TranscodingInit /\ [][TranscodingNext]_vars

\* The account an error names: the account_id of its one argument.
ErrorAccount(e) == IF Len(e.args) = 1 THEN e.args[1].account_id ELSE None

\* C21: an error that went through encode_exception and decode_exception
\* equals the error that was raised, for either class and any args; and two
\* errors of different classes, or naming different accounts, are not equal.
C21_ErrorRoundTrip ==
    /\ sagasLog # <<>> => TransactionError_eq(sagasLog[1].error, raised)
    /\ \A e \in TransactionErrors :
            TransactionError_eq(decode_exception(encode_exception(e)), e)
    /\ \A e \in TransactionErrors :
            /\ (e.type # raised.type) => ~TransactionError_eq(e, raised)
            /\ (/\ Len(e.args) = 1
                /\ Len(raised.args) = 1
                /\ ErrorAccount(e) # ErrorAccount(raised)) => ~TransactionError_eq(e, raised)

\* An InsufficientFundsError naming an account has been stored and read back.
C21_Witness ==
    /\ sagasLog # <<>>
    /\ sagasLog[1].topic = "Errored"
    /\ raised.type = "InsufficientFundsError"
    /\ Len(raised.args) = 1
    /\ ErrorAccount(raised) = AccountIds[1]

\* The event at position i of the Accounts log comes after a
\* TransactionAppended of -amount on the debit account of transfer `tid`
\* that carries `tid`.
AfterDebit(tid, i) ==
    \E j \in 1..(i - 1) :
        /\ accountsLog[j].topic = "TransactionAppended"
        /\ accountsLog[j].transaction_id = tid
        /\ accountsLog[j].originator_id = get_saga(sagasLog, tid).debit_account_id
        /\ accountsLog[j].amount = 0 - get_saga(sagasLog, tid).amount

\* C22 as claimed: every event that carries the transaction_id of a transfer
\* and is on its credit account comes strictly after a TransactionAppended
\* of -amount on its debit account with that transaction_id.
C22_CreditOnlyAfterDebit ==
    \A tid \in SagaIds :
        IsTransfer(tid) =>
            \A i \in OnCreditAccount(tid) : AfterDebit(tid, i)

\* C22: every event that carries the transaction_id of a transfer and is on
\* its credit account, other than the event of the debit leg itself when the
\* transfer names one account twice, comes strictly after a
\* TransactionAppended of -amount on its debit account with that
\* transaction_id; no credit is applied before the debit.
C22_CreditOnlyAfterDebitLeg ==
    \A tid \in SagaIds :
        IsTransfer(tid) =>
            \A i \in OnCreditAccount(tid) :
                \/ AfterDebit(tid, i)
                \/ /\ get_saga(sagasLog, tid).debit_account_id
                        = get_saga(sagasLog, tid).credit_account_id
                   /\ i = FirstOutcome(tid)

\* A transfer between two accounts whose credit account holds an event with
\* its transaction_id.
C22_Witness ==
    \E tid \in SagaIds :
        /\ IsTransfer(tid)
        /\ get_saga(sagasLog, tid).debit_account_id # get_saga(sagasLog, tid).credit_account_id
        /\ OnCreditAccount(tid) # {}
\* The positions in the stream of saga `tid` of its terminal events.
TerminalEvents(tid) ==
    {k \in 1..Len(Stream(sagasLog, tid)) :
        Stream(sagasLog, tid)[k].topic \in {"Succeeded", "Errored"}}

\* C23: no saga has has_succeeded and has_errored both true, and the stream
\* of a saga holds at most one terminal event, Succeeded or Errored.
C23_NeverBothWays ==
    \A tid \in SagaIds :
        InRepository(sagasLog, tid) =>
            /\ ~(get_saga(sagasLog, tid).has_succeeded /\ get_saga(sagasLog, tid).has_errored)
            /\ Cardinality(TerminalEvents(tid)) <= 1

\* A transfer whose credit was rejected has errored after its refund.
C23_Witness ==
    \E tid \in SagaIds :
        /\ IsTransfer(tid)
        /\ get_saga(sagasLog, tid).has_errored
        /\ Len(Outcomes(tid)) = 3
        /\ Outcomes(tid)[3].topic = "TransactionAppended"
\* The most events Accounts appends for a saga of a kind: one per leg.
MaxOutcomes(kind) == IF kind = TransferFundsSaga THEN 3 ELSE 1

\* C24: once a saga has has_succeeded or has_errored set, no event is
\* appended to its stream any more and Accounts appends no further event
\* carrying its transaction_id; the Accounts log holds at most one event per
\* transaction_id of a deposit or withdrawal and at most three per transfer.
C24_TerminalAbsorbing ==
    /\ [](\A tid \in SagaIds :
            InRepository(sagasLog, tid) =>
                Len(Outcomes(tid)) <= MaxOutcomes(get_saga(sagasLog, tid).kind))
    /\ [][\A tid \in SagaIds :
            Terminal(tid) =>
                /\ Stream(sagasLog', tid) = Stream(sagasLog, tid)
                /\ SelectSeq(accountsLog', LAMBDA e : e.transaction_id = tid) = Outcomes(tid)
                /\ (accountsWork' # NoWork =>
                        \A k \in 1..Len(accountsWork'.events) :
                            accountsWork'.events[k].transaction_id # tid)]_vars

\* A transfer that has errored with three events in the Accounts log, while
\* a client call on an account is still to be saved.
C24_Witness ==
    \E tid \in SagaIds :
        /\ Terminal(tid)
        /\ Len(Outcomes(tid)) = 3
        /\ clientWork # {}

\* ------------------------------------------------------- command ordering
\* The system with more than one command in flight: clients submit commands
\* without waiting for the sagas of the earlier ones.
MaxOrderedCommands == 2

Submit(command) ==
    /\ Len(commandsLog) < MaxOrderedCommands
    /\ commandsLog' = Append(commandsLog, command)
    /\ UNCHANGED <<sagasLog, accountsLog, tracking, accountsWork, clientWork, halted>>
    /\ UNCHANGED aggregateVars

OrderedNext ==
    \/ \E a \in KnownIds, amount \in Amounts :
            Submit(CommandCreate("DepositFundsCommand", NextCommandId, None, a, amount))
    \/ \E a \in KnownIds, amount \in Amounts :
            Submit(CommandCreate("WithdrawFundsCommand", NextCommandId, a, None, amount))
    \/ \E a \in KnownIds, b \in KnownIds, amount \in Amounts :
            Submit(CommandCreate("TransferFundsCommand", NextCommandId, a, b, amount))
    \/ \E upstream \in {Commands, Accounts} : SagasProcess(upstream)
    \/ AccountsPull
    \/ AccountsCommit
    \/ AccountsAbort
    \/ create_account
    \/ \E a \in CreatedAccounts : CanCall /\ Accounts_close_account(a)
    \/ \E events \in clientWork : ClientSave(events)

OrderedSpec == Init /\ [][OrderedNext]_vars
\* The first event Accounts has stored for command `tid`: the outcome of the
\* first leg of its saga.
FirstLeg(tid) == accountsLog[FirstOutcome(tid)]

IsDeposit(tid) == commandsLog[tid].topic = "DepositFundsCommand.Created"
IsWithdrawal(tid) == commandsLog[tid].topic = "WithdrawFundsCommand.Created"

\* C25: of two commands, the one saved first has the account event of its
\* first leg committed first in the Accounts log, whatever the interleaving
\* of the runners; so a withdrawal submitted after a deposit to the same
\* account, without waiting for the deposit's saga, is applied to the
\* account with the deposit in it and, if the account is still open and the
\* deposit covers it, is accepted.
C25_FirstLegsKeepOrder ==
    \A c1 \in SagaIds, c2 \in SagaIds :
        (c1 < c2 /\ TransactionEvents(c2) # {}) =>
            /\ TransactionEvents(c1) # {}
            /\ FirstOutcome(c1) < FirstOutcome(c2)
            /\ (/\ IsDeposit(c1)
                /\ IsWithdrawal(c2)
                /\ commandsLog[c1].credit_account_id = commandsLog[c2].debit_account_id
                /\ FirstLeg(c1).topic = "TransactionAppended") =>
                    /\ FirstLeg(c1).originator_version < FirstLeg(c2).originator_version
                    /\ AccountBefore(FirstLeg(c2)).balance >= commandsLog[c1].amount
                    /\ (/\ ~AccountBefore(FirstLeg(c2)).is_closed
                        /\ commandsLog[c2].amount <= commandsLog[c1].amount)
                            => FirstLeg(c2).topic = "TransactionAppended"

\* A withdrawal that follows a deposit to the same account has been applied
\* while the deposit's saga has not yet ended.
C25_Witness ==
    /\ Len(commandsLog) = 2
    /\ IsDeposit(1)
    /\ IsWithdrawal(2)
    /\ commandsLog[1].credit_account_id = commandsLog[2].debit_account_id
    /\ commandsLog[1].amount > 0
    /\ commandsLog[2].amount = commandsLog[1].amount
    /\ TransactionEvents(2) # {}
    /\ FirstLeg(2).topic = "TransactionAppended"
    /\ ~Terminal(1)
\* The positions in the stream of saga `tid` of its requests for a refund.
RefundsRequired(tid) ==
    {k \in 1..Len(Stream(sagasLog, tid)) :
        Stream(sagasLog, tid)[k].topic = "DebitAccountRefundRequired"}

\* The positions in the Accounts log of the TransactionAppended events of
\* +amount that carry `tid` and are on the debit account of the saga.
RefundsReceived(tid) ==
    {i \in AccountEvents(tid, get_saga(sagasLog, tid).debit_account_id, "TransactionAppended") :
        accountsLog[i].amount = get_saga(sagasLog, tid).amount}

\* C26: the stream of a saga holds at most one DebitAccountRefundRequired,
\* and holds it only when a TransactionAppended of -amount on the debit
\* account and, after it, an ErrorRecorded on the credit account, both
\* carrying the saga's id, are committed in the Accounts log; the debit
\* account receives at most one TransactionAppended of +amount per transfer.
C26_RefundOnceWhenOwed ==
    \A tid \in SagaIds :
        InRepository(sagasLog, tid) =>
            /\ Cardinality(RefundsRequired(tid)) <= 1
            /\ RefundsRequired(tid) # {} =>
                /\ IsTransfer(tid)
                /\ \E j \in AccountEvents(tid, get_saga(sagasLog, tid).credit_account_id,
                                          "ErrorRecorded") :
                        /\ AfterDebit(tid, j)
                        /\ j <= tracking[<<Sagas, Accounts>>]
            /\ Cardinality(RefundsReceived(tid)) <= 1

\* The refund of a transfer whose credit was rejected has been applied to
\* the debit account.
C26_Witness ==
    \E tid \in SagaIds :
        /\ RefundsRequired(tid) # {}
        /\ Len(Outcomes(tid)) = 3
        /\ Outcomes(tid)[3].topic = "TransactionAppended"
        /\ Outcomes(tid)[3].originator_id = get_saga(sagasLog, tid).debit_account_id
\* C27: every TransactionAppended and ErrorRecorded in the Accounts log
\* carries a transaction_id that is not null and names a saga that is in the
\* Sagas store; the lookup Sagas makes for the next such event succeeds, and
\* Sagas never halts, however its reading of Commands and of Accounts
\* interleave.
C27_SagaLookupNeverFails ==
    /\ \A i \in 1..Len(accountsLog) :
            IsOutcome(accountsLog[i]) =>
                /\ accountsLog[i].transaction_id # NoId
                /\ InRepository(sagasLog, accountsLog[i].transaction_id)
    /\ Sagas \notin halted
    /\ (/\ tracking[<<Sagas, Accounts>>] < Len(accountsLog)
        /\ IsOutcome(NextNotification(Sagas, Accounts))) =>
            SagasPolicy(sagasLog, NextNotification(Sagas, Accounts)).raised = NoError

\* Sagas has processed an ErrorRecorded of the first command's saga before
\* it has read the second command.
C27_Witness ==
    /\ Len(commandsLog) = 2
    /\ tracking[<<Sagas, Commands>>] = 1
    /\ \E i \in 1..tracking[<<Sagas, Accounts>>] :
            /\ accountsLog[i].topic = "ErrorRecorded"
            /\ accountsLog[i].transaction_id = 1
    /\ Terminal(1)
\* The saga event Accounts is to process next asks for a transaction on an
\* account that is not in the Accounts store.
NextLegOnUnknownAccount ==
    /\ tracking[<<Accounts, Sagas>>] < Len(sagasLog)
    /\ IsLeg(NextNotification(Accounts, Sagas))
    /\ ~InRepository(accountsLog, LegAccount(NextNotification(Accounts, Sagas)))

\* The events of a log that Accounts' policy wrote.
OutcomesIn(log) == SelectSeq(log, IsOutcome)

\* C28: when Accounts processes a saga event whose account is not in its
\* store, the policy fails with an exception that is not a domain error, the
\* step appends no event to any stream and does not advance the tracking
\* position of Accounts for Sagas, and Accounts halts: afterwards the
\* position stays on that event and Accounts processes no later saga event.
C28_HaltsWithoutEffect ==
    /\ [](Accounts \in halted =>
            /\ NextLegOnUnknownAccount
            /\ accountsWork = NoWork
            /\ ~IsTransactionError(
                    AccountsPolicy(accountsLog, NextNotification(Accounts, Sagas)).raised)
            /\ AccountsPolicy(accountsLog, NextNotification(Accounts, Sagas)).raised # NoError)
    /\ [][/\ (NextLegOnUnknownAccount /\ AccountsPull) =>
                /\ Accounts \in halted'
                /\ accountsLog' = accountsLog
                /\ sagasLog' = sagasLog
                /\ commandsLog' = commandsLog
                /\ tracking' = tracking
                /\ accountsWork' = NoWork
          /\ Accounts \in halted =>
                /\ Accounts \in halted'
                /\ tracking'[<<Accounts, Sagas>>] = tracking[<<Accounts, Sagas>>]
                /\ OutcomesIn(accountsLog') = OutcomesIn(accountsLog)
                /\ accountsWork' = NoWork]_vars

\* Accounts is halted on the credit leg of the first command's transfer to
\* an unknown account, after it had debited the known account, and the saga
\* of the second command waits behind it in the Sagas log.
C28_Witness ==
    /\ Accounts \in halted
    /\ NextNotification(Accounts, Sagas).topic = "CreditAccountCreditRequired"
    /\ NextNotification(Accounts, Sagas).originator_id = 1
    /\ tracking[<<Sagas, Accounts>>] = Len(accountsLog)
    /\ \E k \in (tracking[<<Accounts, Sagas>>] + 2)..Len(sagasLog) :
            /\ sagasLog[k].originator_id = 2
            /\ IsLeg(sagasLog[k])

\* ------------------------------------------------------------- refinement
\* The saga system fed one request at a time, each run to quiescence, next
\* to BankAccountApplication applying the same requests to a store of its
\* own. Accounts are created, and closed, before the first request.
MaxRequests == 3
MaxRequestAmount == 2

RequestAmounts == 1..MaxRequestAmount

\* Nothing is left to process and no call is under way.
Quiescent ==
    /\ tracking[<<Sagas, Commands>>] = Len(commandsLog)
    /\ tracking[<<Accounts, Sagas>>] = Len(sagasLog)
    /\ tracking[<<Sagas, Accounts>>] = Len(accountsLog)
    /\ accountsWork = NoWork
    /\ clientWork = {}

Request(command) ==
    /\ Quiescent
    /\ Len(commandsLog) < MaxRequests
    /\ commandsLog' = Append(commandsLog, command)
    /\ UNCHANGED <<sagasLog, accountsLog, tracking, accountsWork, clientWork, halted>>
    /\ UNCHANGED aggregateVars

RefinementNext ==
    \/ \E a \in CreatedAccounts, amount \in RequestAmounts :
            Request(CommandCreate("DepositFundsCommand", NextCommandId, None, a, amount))
    \/ \E a \in CreatedAccounts, amount \in RequestAmounts :
            Request(CommandCreate("WithdrawFundsCommand", NextCommandId, a, None, amount))
    \/ \E a \in CreatedAccounts, b \in CreatedAccounts, amount \in RequestAmounts :
            a # b /\ Request(CommandCreate("TransferFundsCommand", NextCommandId, a, b, amount))
    \/ \E upstream \in {Commands, Accounts} : SagasProcess(upstream)
    \/ AccountsPull
    \/ AccountsCommit
    \/ AccountsAbort
    \/ commandsLog = <<>> /\ create_account
    \/ \E a \in CreatedAccounts :
            commandsLog = <<>> /\ CanCall /\ Accounts_close_account(a)
    \/ \E events \in clientWork : ClientSave(events)

RefinementSpec == Init /\ [][RefinementNext]_vars

\* One request applied by BankAccountApplication to the store `log`: the
\* exception it raises (NoError if none) and the store it leaves.
AppOne(log, account_id, amount) ==
    LET r == append_transaction(get_account(log, account_id), amount, NoId)
    IN IF r.raised # NoError THEN [raised |-> r.raised, log |-> log]
       ELSE [raised |-> NoError, log |-> store_events(log, r.obj.pending)]

AppTransfer(log, debit_account_id, credit_account_id, amount) ==
    LET debit == append_transaction(get_account(log, debit_account_id), 0 - amount, NoId)
        credit == append_transaction(get_account(log, credit_account_id), amount, NoId)
    IN IF debit.raised # NoError THEN [raised |-> debit.raised, log |-> log]
       ELSE IF credit.raised # NoError THEN [raised |-> credit.raised, log |-> log]
       ELSE [raised |-> NoError,
             log |-> store_events(log, debit.obj.pending \o credit.obj.pending)]

AppRequest(log, command) ==
    CASE command.topic = "DepositFundsCommand.Created" ->
            AppOne(log, command.credit_account_id, command.amount)
      [] command.topic = "WithdrawFundsCommand.Created" ->
            AppOne(log, command.debit_account_id, 0 - command.amount)
      [] command.topic = "TransferFundsCommand.Created" ->
            AppTransfer(log, command.debit_account_id, command.credit_account_id,
                        command.amount)

\* The application's store after the first n requests, a request that
\* raises being skipped, and what each request raised.
RECURSIVE AppRun(_, _, _)
AppRun(log, commands, n) ==
    IF n = 0 THEN [log |-> log, raised |-> <<>>]
    ELSE LET before == AppRun(log, commands, n - 1)
             r == AppRequest(before.log, commands[n])
         IN [log |-> r.log, raised |-> Append(before.raised, r.raised)]

\* The application's store before the first request: the same accounts,
\* created and closed by its own create_account and close_account.
AppAccounts ==
    SelectSeq(accountsLog, LAMBDA e : e.topic \in {"BankAccount.Created", "Closed"})

\* C29: when the saga system is quiescent after a sequence of deposit,
\* withdraw and transfer requests with positive amounts on existing
\* accounts, debit and credit account distinct, each run to quiescence
\* before the next, the balance of every account equals its balance in
\* BankAccountApplication after the same requests (one that raises being
\* skipped), and every request's saga has succeeded exactly when the
\* application's call returned, and has errored with exactly the domain
\* error the application's call raised otherwise.
C29_RefinesApplication ==
    (Quiescent /\ Accounts \notin halted /\ Sagas \notin halted) =>
        LET app == AppRun(AppAccounts, commandsLog, Len(commandsLog)) IN
        /\ \A a \in CreatedAccounts :
                get_account(accountsLog, a).balance = get_account(app.log, a).balance
        /\ \A tid \in SagaIds :
                /\ InRepository(sagasLog, tid)
                /\ get_saga(sagasLog, tid).has_succeeded <=> app.raised[tid] = NoError
                /\ get_saga(sagasLog, tid).has_errored <=> app.raised[tid] # NoError
                /\ get_saga(sagasLog, tid).has_errored =>
                        get_saga(sagasLog, tid).errors = <<app.raised[tid]>>

\* Three requests are done: one succeeded, one is a transfer that was
\* refunded after its credit was rejected, one failed at its first leg.
C29_Witness ==
    /\ Quiescent
    /\ Len(commandsLog) = MaxRequests
    /\ \E tid \in SagaIds : get_saga(sagasLog, tid).has_succeeded
    /\ \E tid \in SagaIds :
            /\ IsTransfer(tid)
            /\ get_saga(sagasLog, tid).has_errored
            /\ Len(Outcomes(tid)) = 3
    /\ \E tid \in SagaIds :
            /\ get_saga(sagasLog, tid).has_errored
            /\ Len(Outcomes(tid)) = 1
\* The accounts a saga names: the credit account of a deposit, the debit
\* account of a withdrawal, both accounts of a transfer.
NamedAccounts(saga) ==
    CASE saga.kind = DepositFundsSaga -> {saga.credit_account_id}
      [] saga.kind = WithdrawFundsSaga -> {saga.debit_account_id}
      [] saga.kind = TransferFundsSaga -> {saga.debit_account_id, saga.credit_account_id}
      [] OTHER -> {}

\* What all sagas together have added to the balance of an account.
RECURSIVE TotalBalanceChange(_, _)
TotalBalanceChange(account_id, n) ==
    IF n = 0 THEN 0
    ELSE TotalBalanceChange(account_id, n - 1) + BalanceChange(n, account_id)

\* C30: every TransactionAppended and ErrorRecorded that carries the id of a
\* saga is on an account the saga names (the credit account of a deposit,
\* the debit account of a withdrawal, the debit or credit account of a
\* transfer); a command changes the balance of no other account, and the
\* balance of an account is the sum of what the commands naming it added.
C30_OnlyNamedAccounts ==
    /\ \A i \in 1..Len(accountsLog) :
            IsOutcome(accountsLog[i]) =>
                /\ InRepository(sagasLog, accountsLog[i].transaction_id)
                /\ accountsLog[i].originator_id \in
                        NamedAccounts(get_saga(sagasLog, accountsLog[i].transaction_id))
    /\ \A tid \in SagaIds, a \in CreatedAccounts :
            (InRepository(sagasLog, tid) /\ a \notin NamedAccounts(get_saga(sagasLog, tid)))
                => BalanceChange(tid, a) = 0
    /\ \A a \in CreatedAccounts :
            get_account(accountsLog, a).balance = TotalBalanceChange(a, Len(commandsLog))

\* Two commands that name different accounts have both changed a balance.
C30_Witness ==
    /\ Len(commandsLog) = 2
    /\ InRepository(sagasLog, 1)
    /\ InRepository(sagasLog, 2)
    /\ NamedAccounts(get_saga(sagasLog, 1)) \cap NamedAccounts(get_saga(sagasLog, 2)) = {}
    /\ \E a \in CreatedAccounts : BalanceChange(1, a) # 0
    /\ \E a \in CreatedAccounts : BalanceChange(2, a) # 0
\* C31: record_error, on a closed account as on an open one, raises nothing,
\* appends exactly one ErrorRecorded event carrying the error and the
\* transaction id (the version grows by one) and leaves balance,
\* overdraft_limit and is_closed as they were; replaying the events, the
\* ErrorRecorded ones included, gives the same account.
C31_ErrorRecordedChangesNoState ==
    /\ [](LET replayed == ReplayBankAccount(heldAccount.pending, Len(heldAccount.pending))
          IN /\ replayed.balance = heldAccount.balance
             /\ replayed.overdraft_limit = heldAccount.overdraft_limit
             /\ replayed.is_closed = heldAccount.is_closed
             /\ replayed.version = heldAccount.version)
    /\ [][\A error \in CallErrors, transaction_id \in CallTransactionIds :
            Call_record_error(error, transaction_id) =>
                /\ raised' = NoError
                /\ Len(heldAccount'.pending) = Len(heldAccount.pending) + 1
                /\ SubSeq(heldAccount'.pending, 1, Len(heldAccount.pending))
                        = heldAccount.pending
                /\ heldAccount'.pending[Len(heldAccount'.pending)].topic = "ErrorRecorded"
                /\ heldAccount'.pending[Len(heldAccount'.pending)].error = error
                /\ heldAccount'.pending[Len(heldAccount'.pending)].transaction_id
                        = transaction_id
                /\ heldAccount'.pending[Len(heldAccount'.pending)].originator_version
                        = heldAccount.version
                /\ heldAccount'.version = heldAccount.version + 1
                /\ heldAccount'.balance = heldAccount.balance
                /\ heldAccount'.overdraft_limit = heldAccount.overdraft_limit
                /\ heldAccount'.is_closed = heldAccount.is_closed]_vars

\* An error has just been recorded on a closed account that holds a balance
\* and an overdraft limit.
C31_Witness ==
    /\ raised = NoError
    /\ heldAccount.is_closed
    /\ heldAccount.balance # 0
    /\ heldAccount.overdraft_limit # 0
    /\ heldAccount.pending[Len(heldAccount.pending)].topic = "ErrorRecorded"
    /\ heldAccount.pending[Len(heldAccount.pending)].error
            = AccountClosedError(heldAccount.id)
\* The k-th event Accounts stored for saga `tid` answers a leg on an account
\* that was closed and also lacked the funds for the leg's amount.
ClosedAndShort(tid, k) ==
    LET before == AccountBefore(Outcomes(tid)[k])
        amount == LegAmount(ProcessedLegs(tid)[k])
    IN /\ before.is_closed
       /\ before.balance + amount < 0 - before.overdraft_limit

\* C32: when append_transaction is called for a leg on an account that is
\* closed and for which balance + amount < -overdraft_limit holds as well,
\* the error raised, which Accounts records in ErrorRecorded, is
\* AccountClosedError of that account and never InsufficientFundsError.
C32_ClosedCheckedBeforeFunds ==
    \A tid \in SagaIds :
        /\ Len(Outcomes(tid)) <= Len(ProcessedLegs(tid))
        /\ \A k \in 1..Len(Outcomes(tid)) :
                ClosedAndShort(tid, k) =>
                    /\ Outcomes(tid)[k].topic = "ErrorRecorded"
                    /\ Outcomes(tid)[k].error
                            = AccountClosedError(Outcomes(tid)[k].originator_id)
                    /\ Outcomes(tid)[k].error.type
                            # InsufficientFundsError(Outcomes(tid)[k].originator_id).type

\* Accounts has recorded the error of a debit on a closed account whose
\* balance did not cover the amount.
C32_Witness ==
    \E tid \in SagaIds :
        /\ Len(Outcomes(tid)) >= 1
        /\ ClosedAndShort(tid, 1)
        /\ LegAmount(ProcessedLegs(tid)[1]) < 0
        /\ Outcomes(tid)[1].topic = "ErrorRecorded"
\* ------------------------------------------- events delivered to a saga
\* Sagas.policy as a function of what it is handed: one transfer command and
\* an Accounts log holding any TransactionAppended and ErrorRecorded events
\* that carry the transfer's id, on either account and with any amount, which
\* Sagas processes in order through the handlers of the TransferFundsSaga.
MaxDelivered == 2
MaxDeliveredAmount == 2

DeliveredAmounts == {a \in (0 - MaxDeliveredAmount)..MaxDeliveredAmount : a # 0}

DeliveredEvents ==
    {[Event(a, 0, "TransactionAppended") EXCEPT !.amount = amount, !.transaction_id = 1]
        : a \in {AccountIds[1], AccountIds[2]}, amount \in DeliveredAmounts}
    \cup {[Event(a, 0, "ErrorRecorded") EXCEPT !.error = AccountClosedError(a),
                                               !.transaction_id = 1]
        : a \in {AccountIds[1], AccountIds[2]}}

\* The events numbered as their accounts' streams number them.
Delivered(events) ==
    [k \in 1..Len(events) |->
        [events[k] EXCEPT !.originator_version =
            1 + Cardinality({j \in 1..(k - 1) :
                                events[j].originator_id = events[k].originator_id})]]

DeliveryInit ==
    \E d \in {AccountIds[1], AccountIds[2]}, c \in {AccountIds[1], AccountIds[2]},
       n \in 1..MaxDelivered :
        \E events \in [1..n -> DeliveredEvents] :
            /\ commandsLog = <<CommandCreate("TransferFundsCommand", 1, d, c, 1)>>
            /\ sagasLog = <<>>
            /\ accountsLog = BankAccountCreate(AccountIds[1]).pending
                                \o BankAccountCreate(AccountIds[2]).pending
                                \o Delivered(events)
            /\ tracking = [f \in Follows |-> 0]
            /\ accountsWork = NoWork
            /\ clientWork = {}
            /\ halted = {}
            /\ heldAccount = BankAccountCreate(AccountIds[1])
            /\ raised = NoError

DeliveryNext ==
    \/ SagasProcess(Commands)
    \/ SagasProcess(Accounts)

DeliverySpec == DeliveryInit /\ [][DeliveryNext]_vars

\* The next Accounts event goes to a TransferFundsSaga and matches none of
\* the conditions of the handler it goes to.
Unmatched ==
    /\ RoutedToTransfer
    /\ ConditionsHolding(
            get_saga(sagasLog, NextNotification(Sagas, Accounts).transaction_id),
            NextNotification(Sagas, Accounts)) = 0

\* C33: when a TransactionAppended or ErrorRecorded routed to a
\* TransferFundsSaga matches none of its conditions, the handler triggers no
\* event, the saga's stream and with it has_debit_account_debited,
\* has_succeeded, has_errored, errors and version stay as they were, Sagas
\* does not halt, and its tracking position for Accounts moves past the event.
C33_UnmatchedIsNoOp ==
    [][(Unmatched /\ SagasProcess(Accounts)) =>
        LET tid == NextNotification(Sagas, Accounts).transaction_id IN
        /\ SagasPolicy(sagasLog, NextNotification(Sagas, Accounts)) = NoEvents
        /\ sagasLog' = sagasLog
        /\ get_saga(sagasLog', tid) = get_saga(sagasLog, tid)
        /\ halted' = halted
        /\ tracking' = [tracking EXCEPT ![<<Sagas, Accounts>>] = @ + 1]]_vars

\* Sagas has moved past a second debit event delivered to a saga that the
\* first had already marked as debited, and the saga's stream holds nothing
\* but its Created and its CreditAccountCreditRequired.
C33_Witness ==
    /\ halted = {}
    /\ tracking[<<Sagas, Accounts>>] = 4
    /\ Len(sagasLog) = 2
    /\ get_saga(sagasLog, 1).has_debit_account_debited
    /\ ~get_saga(sagasLog, 1).has_succeeded
    /\ ~get_saga(sagasLog, 1).has_errored
    /\ accountsLog[3].topic = "TransactionAppended"
    /\ accountsLog[3].originator_id = get_saga(sagasLog, 1).debit_account_id
    /\ accountsLog[3].amount = 0 - get_saga(sagasLog, 1).amount
    /\ accountsLog[4] = [accountsLog[3] EXCEPT !.originator_version = @ + 1]

====
